---- MODULE Spec2Model ----
(***************************************************************************)
(* Model of the send scheduler of bot/services/rate_limiter.py             *)
(* (class RateLimiter) and of its facade bot/services/messenger.py.        *)
(*                                                                         *)
(* Time is loop.time() counted in ticks of half a second (OneSec = 2).     *)
(* The event loop is cooperative: a coroutine runs from one suspension     *)
(* point to the next without interleaving.  asyncio.Lock.acquire does not  *)
(* suspend when the lock is free, and no coroutine of RateLimiter awaits   *)
(* inside "async with self._queue_lock", so every locked block is part of  *)
(* the step that contains it.  The suspension points are:                  *)
(*   enqueue_send   await self._send_typing_indicator(...)                 *)
(*   worker         await self._queue_event.wait() / asyncio.wait_for(...) *)
(*   worker         await entry.method(...)                                *)
(*   stop           await self._worker_task                                *)
(*   messenger      await bot.send_message(...) / await result             *)
(* A worker that loops without suspending (pop, requeue, pop, ...) is in   *)
(* pc = "run" between the iterations, and nothing else runs meanwhile.     *)
(***************************************************************************)
EXTENDS Integers, Sequences, FiniteSets, TLC

\* ---------------------------------------------------------------- bounds
MaxEntries == 2
MaxTime == 2
MaxWorkers == 3
MaxStops == 1
PaceEntries == 2
PaceTime == 3
RetryEntries == 2
RetryTime == 4
OrderEntries == 3
OrderTime == 3
FacadeCalls == 2
FacadeTime == 2
MetricsEntries == 3
AdmitEntries == 3
AdmitEarly == 2
MetricsTime == 2
LifeEntries == 2
LifeTime == 2
LifeStops == 2
LiveEntries == 2
CancelEntries == 2
CancelTime == 3
TrackTime == 4
TrackRecords == 3
LiveTime == 3

\* ------------------------------------------------- configuration (ticks)
OneSec == 2
GlobalRate == 1
PerChatCooldown == 3
HeavyLoadThreshold == 1
MaxRetryAttempts == 2
RetryBaseDelay == 1
DelayAlertCooldown == 600
NoTime == -1

Chats == {"A", "B"}
OneChat == {"A"}
RetryAfterSet == {2}
RetryAfterBoth == {1, 2}
AdminChatConfigured == TRUE
DelayAlertThreshold == HeavyLoadThreshold * 2

VARIABLES
    now,               \* loop.time()
    running,           \* self._running
    queueEvent,        \* self._queue_event: "none" | "clear" | "set"
    queueLock,         \* self._queue_lock is not None
    workerTask,        \* self._worker_task: 0 (None) or a worker id
    workers,           \* the worker tasks ever created
    stopWait,          \* worker id -> stop() calls suspended on "await self._worker_task"
    nStops,            \* stop() calls made so far
    globalWindow,      \* self._global_window
    perChatLastSent,   \* self._per_chat_last_sent (NoTime: no key)
    queue,             \* self._queue: set of <<ready_at, seq, entry>>
    queueSeq,          \* self._queue_seq
    entries,           \* the _QueueEntry objects, in order of creation
    pendingAdm,        \* enqueue_send calls suspended in the typing indicator
    cancelTasks,       \* entries with a scheduled, not yet run, _cancel_entry task
    lastDelayAlertAt,  \* self._last_delay_alert_at
    adminChat,         \* self._admin_chat_id_log is not None
    alertLog,          \* the backlog alerts created (_safe_notify_admin tasks)
    chatActions,       \* chat id -> typing signals the bot was asked to send
    metrics,           \* the latest value returned by a queue_metrics call, if any
    limiter,           \* messenger._rate_limiter is not None
    calls,             \* per entry: the messenger call that admitted it, if any
    directCalls,       \* messenger calls forwarded to the bot (no limiter)
    entHist,           \* per entry: history of its invocations (not program state)
    hist               \* history of all invocations (not program state)

vars == <<now, running, queueEvent, queueLock, workerTask, workers, stopWait, nStops,
          globalWindow, perChatLastSent, queue, queueSeq, entries, pendingAdm,
          cancelTasks, lastDelayAlertAt, adminChat, alertLog, chatActions, metrics,
          limiter, calls, directCalls, entHist, hist>>

life == <<running, queueLock, workerTask, stopWait, nStops>>
lim == <<globalWindow, perChatLastSent>>
fac == <<limiter, directCalls>>
alertVars == <<lastDelayAlertAt, adminChat, alertLog, chatActions, metrics>>

\* ---------------------------------------------------------------- helpers
Max(a, b) == IF a >= b THEN a ELSE b

Workers == 1 .. MaxWorkers
EntryIds == 1 .. Len(entries)

\* 2 ** n
RECURSIVE Pow2(_)
Pow2(n) == IF n <= 0 THEN 1 ELSE 2 * Pow2(n - 1)

\* a backoff that does not grow
RetryBackoffFlat(attempt) == RetryBaseDelay

\* _retry_backoff
RetryBackoff(attempt) == RetryBaseDelay * Pow2(Max(0, attempt - 1))

\* a window that is never pruned
TrimGlobalWindowNothing(win, t) == win

\* _trim_global_window
RECURSIVE TrimGlobalWindow(_, _)
TrimGlobalWindow(win, t) ==
    IF win # <<>> /\ (t - Head(win)) >= OneSec
    THEN TrimGlobalWindow(Tail(win), t)
    ELSE win

\* a limiter that records no send in the window
RecordGlobalNothing(win, t) == TrimGlobalWindow(win, t)

\* a limiter that never finds the global window full
CanSendGlobalAlways(win, t) == TRUE

\* can_send_global: the value returned (the window is trimmed as a side effect)
CanSendGlobal(win, t) == Len(TrimGlobalWindow(win, t)) < GlobalRate

\* record_global
RecordGlobal(win, t) == Append(TrimGlobalWindow(win, t), t)

\* a cooldown counted from the time of the check
NextAllowedForChatFromNow(last, chat, t) ==
    IF last[chat] = NoTime THEN t
    ELSE IF last[chat] + PerChatCooldown > t THEN t + PerChatCooldown ELSE t

\* next_allowed_for_chat
NextAllowedForChat(last, chat, t) ==
    IF last[chat] = NoTime THEN t ELSE Max(t, last[chat] + PerChatCooldown)

\* a limiter that forgets the send
RecordChatSendNothing(last, chat, t) == last

\* a cooldown map that takes whatever timestamp comes last
RecordChatSendLatest(last, chat, t) == [last EXCEPT ![chat] = t]

\* record_chat_send
RecordChatSend(last, chat, t) ==
    [last EXCEPT ![chat] = Max(t, IF last[chat] = NoTime THEN t ELSE last[chat])]

\* a global check that reschedules to the present
NextGlobalReadyNow(win, t) == t

\* _next_global_ready
NextGlobalReady(win, t) == IF win = <<>> THEN t ELSE Max(t, Head(win) + OneSec)

\* heap order of the tuples (ready_at, seq, entry); seq is unique
HeapLess(x, y) == x[1] < y[1] \/ (x[1] = y[1] /\ x[2] <= y[2])
QueueHead == CHOOSE x \in queue : \A y \in queue : HeapLess(x, y)

\* heapq.heappush(self._queue, (ready_at, seq, entry))
HeapPush(q, readyAt, seq, e) == q \cup {<<readyAt, seq, e>>}

\* a pop that leaves the tuple in the heap
HeapPopNothing(q, x) == q

\* heapq.heappop(self._queue), x being the head
HeapPop(q, x) == q \ {x}

\* an event whose set() wakes nobody
WakeNobody(ws) == ws

\* asyncio.Event.set(): every task suspended in wait() is made runnable
WakeAll(ws) ==
    [w \in Workers |-> IF ws[w].pc = "wait" THEN [ws[w] EXCEPT !.woken = TRUE] ELSE ws[w]]

EventSet(ev) == IF ev = "none" THEN "none" ELSE "set"

\* no worker task is in the middle of a step
Quiescent == \A w \in Workers : workers[w].pc # "run"

\* a worker task: pc is "none" (not created), "new" (created, not yet run), "run" (in a
\* step), "wait" (suspended in _next_ready_entry), "send" (suspended in entry.method),
\* or "done"; cur and attempt are _dispatch_entry's entry and attempt
NoWorker == [pc |-> "none", cur |-> 0, attempt |-> 0, until |-> NoTime, woken |-> FALSE,
             cancelReq |-> FALSE]

\* ---------------------------------------------------------------- futures
PendingFuture == [st |-> "pending", val |-> 0]
Done(f) == f.st # "pending"

\* a resolution that does not look at the future's state
ResolveEntryUnguarded(es, e, v) == [es EXCEPT ![e].future = [st |-> "result", val |-> v]]

\* _resolve_entry: set_result unless the future is done
ResolveEntry(es, e, v) ==
    IF es[e].future.st = "pending"
    THEN [es EXCEPT ![e].future = [st |-> "result", val |-> v]]
    ELSE es

\* a rejection that does not look at the future's state
RejectEntryUnguarded(es, e, exc) == [es EXCEPT ![e].future = [st |-> exc, val |-> 0]]

\* _reject_entry: set_exception unless the future is done
RejectEntry(es, e, exc) ==
    IF es[e].future.st = "pending"
    THEN [es EXCEPT ![e].future = [st |-> exc, val |-> 0]]
    ELSE es

\* a flush that drops the queued entries without rejecting them
FlushQueueSilently(es, q) == es

\* stop(): while self._queue: heappop, _reject_entry(RuntimeError("RateLimiter stopped"))
RECURSIVE FlushQueue(_, _)
FlushQueue(es, q) ==
    IF q = {} THEN es
    ELSE LET x == CHOOSE z \in q : \A y \in q : HeapLess(z, y)
         IN FlushQueue(RejectEntry(es, x[3], "Stopped"), q \ {x})

\* the value the n-th invocation of entry e's operation returns when it succeeds
OpResult(e, n) == 10 * e + n

\* ---------------------------------------------------------------- metrics
\* the delay without the clamp at zero
DelayOfUnclamped(x, t) == x[1] - t

\* queue_metrics: max(0.0, ready_at - now) over the queued tuples
DelayOf(x, t) == Max(0, x[1] - t)
MaxDelay(q, t) ==
    IF q = {} THEN 0
    ELSE LET x == CHOOSE z \in q : \A y \in q : DelayOf(z, t) >= DelayOf(y, t)
         IN DelayOf(x, t)

\* the sum of the delays of the tuples of q
RECURSIVE SumDelay(_, _)
SumDelay(q, t) ==
    IF q = {} THEN 0
    ELSE LET x == CHOOSE z \in q : TRUE IN DelayOf(x, t) + SumDelay(q \ {x}, t)

\* per_chat: the largest delay of each chat that has a queued entry
PerChat(q, es, t) ==
    [c \in {es[x[3]].chat : x \in q} |-> MaxDelay({x \in q : es[x[3]].chat = c}, t)]

\* max(per_chat.items(), key=item[1]) returns the first maximal item in the order of
\* the dict, which is the order of the heap array: any chat with the largest delay
WorstChats(q, es, t) ==
    {c \in DOMAIN PerChat(q, es, t) :
        \A d \in DOMAIN PerChat(q, es, t) : PerChat(q, es, t)[c] >= PerChat(q, es, t)[d]}

\* zero metrics that still name a chat
NoMetricsNamingChat ==
    [queue_depth |-> 0, max_delay_sec |-> 0, avg_delay_sec |-> <<0, 1>>,
     max_delay_chat_id |-> "A", max_delay_chat_sec |-> 0]

\* the dict returned for no queue lock or an empty queue
NoMetrics ==
    [queue_depth |-> 0, max_delay_sec |-> 0, avg_delay_sec |-> <<0, 1>>,
     max_delay_chat_id |-> "None", max_delay_chat_sec |-> 0]

\* queue_metrics: the dicts it may return (avg_delay_sec as <<sum, count>>)
QueueMetrics(lock, q, es, t) ==
    IF ~lock \/ Cardinality(q) = 0 THEN {NoMetrics}
    ELSE {[queue_depth |-> Cardinality(q),
           max_delay_sec |-> MaxDelay(q, t),
           avg_delay_sec |-> <<SumDelay(q, t), Cardinality(q)>>,
           max_delay_chat_id |-> c,
           max_delay_chat_sec |-> PerChat(q, es, t)[c]] : c \in WorstChats(q, es, t)}

\* messenger.get_queue_metrics
GetQueueMetrics(lm, lock, q, es, t) ==
    IF ~lm THEN {NoMetrics} ELSE QueueMetrics(lock, q, es, t)

\* the checks without the debounce
NotifyDueEveryTime(last, q, t) ==
    /\ adminChat
    /\ ~(Cardinality(q) = 0 \/ MaxDelay(q, t) < DelayAlertThreshold)

\* _maybe_notify_delay: the checks passed before an alert is created
NotifyDue(last, q, t) ==
    /\ adminChat
    /\ ~(Cardinality(q) = 0 \/ MaxDelay(q, t) < DelayAlertThreshold)
    /\ ~(last # NoTime /\ (t - last) < DelayAlertCooldown)

\* _maybe_notify_delay: the new value of _last_delay_alert_at
MaybeNotifyDelay(last, q, t) == IF NotifyDue(last, q, t) THEN t ELSE last

\* the alert created by _maybe_notify_delay: what its text reports
AlertMessage(q, t) ==
    [at |-> t, depth |-> Cardinality(q), maxDelay |-> MaxDelay(q, t),
     delivery |-> "pending"]

\* ---------------------------------------------------------------- history
\* invoked: invocations of the entry's operation so far; last: outcome of the latest
\* one; failAt, failD: when it raised RetryAfter and with which retry_after; rlOnly: no
\* invocation ended otherwise than by RetryAfter; atStop: queued when a stop() began;
\* netOnly: no invocation ended otherwise than by TimedOut/NetworkError (failAt is
\* then the time of the latest of these); typing: how the typing signal of its
\* admission ended ("none": there was no signal)
NoEntHist == [invoked |-> 0, last |-> "none", failAt |-> NoTime, failD |-> 0,
              rlOnly |-> TRUE, atStop |-> FALSE, netOnly |-> TRUE, typing |-> "none"]

\* the last n elements of s
LastN(s, n) == IF Len(s) <= n THEN s ELSE SubSeq(s, Len(s) - n + 1, Len(s))

\* entry e's operation is invoked at time t
HistInvoke(e, t) ==
    /\ entHist' = [entHist EXCEPT ![e].invoked = @ + 1]
    /\ hist' = [hist EXCEPT !.inv = LastN(Append(@, t), GlobalRate),
                            !.chatInv[entries[e].chat] = t]

\* the invocation of entry e ends at time t with outcome k
HistOutcome(e, k, t, d) ==
    entHist' = [entHist EXCEPT ![e].last = k,
                               ![e].failAt = IF k \in {"rl", "net"} THEN t ELSE NoTime,
                               ![e].failD = IF k = "rl" THEN d ELSE 0,
                               ![e].rlOnly = @ /\ k = "rl",
                               ![e].netOnly = @ /\ k = "net"]

\* a stop() begins: the entries queued at that time
HistStop ==
    entHist' = [e \in DOMAIN entHist |->
                  IF \E x \in queue : x[3] = e
                  THEN [entHist[e] EXCEPT !.atStop = TRUE] ELSE entHist[e]]

\* ---------------------------------------------------------------- initial state
InitLimiter ==
    /\ now = 0
    /\ running = FALSE
    /\ queueEvent = "none"
    /\ queueLock = FALSE
    /\ workerTask = 0
    /\ workers = [w \in Workers |-> NoWorker]
    /\ stopWait = [w \in Workers |-> 0]
    /\ nStops = 0
    /\ globalWindow = <<>>
    /\ perChatLastSent = [c \in Chats |-> NoTime]
    /\ queue = {}
    /\ queueSeq = 0
    /\ entries = <<>>
    /\ pendingAdm = <<>>
    /\ cancelTasks = {}
    /\ lastDelayAlertAt = NoTime
    /\ alertLog = <<>>
    /\ chatActions = [c \in Chats |-> 0]
    /\ metrics = <<>>
    /\ calls = <<>>
    /\ directCalls = <<>>
    /\ entHist = <<>>
    /\ hist = [inv |-> <<>>, ok |-> <<>>, nCalls |-> 0, nRefused |-> 0,
               chatInv |-> [c \in Chats |-> NoTime], chatOk |-> [c \in Chats |-> NoTime]]

Init == InitLimiter /\ limiter = TRUE /\ adminChat = AdminChatConfigured

\* messenger.configure with or without a limiter (main.py lines 84-87)
InitFacade == InitLimiter /\ limiter \in BOOLEAN /\ adminChat = AdminChatConfigured

\* a limiter with or without ADMIN_CHAT_ID_LOG
InitAdmit == InitLimiter /\ limiter = TRUE /\ adminChat \in BOOLEAN

\* ---------------------------------------------------------------- clock
Tick(maxT) ==
    /\ Quiescent
    /\ now < maxT
    /\ now' = now + 1
    /\ UNCHANGED <<life, queueEvent, workers, lim, queue, queueSeq, entries, pendingAdm,
                   cancelTasks, alertVars, fac, calls, entHist, hist>>

\* ---------------------------------------------------------------- start
FreeWorker == CHOOSE w \in Workers :
    workers[w].pc = "none" /\ \A v \in Workers : workers[v].pc = "none" => w <= v

StopInProgress == \E v \in Workers : stopWait[v] > 0

StartBody ==
    /\ Quiescent
    /\ queueEvent' = (IF queueEvent = "none" THEN "clear" ELSE queueEvent)
    /\ queueLock' = TRUE
    /\ IF workerTask = 0 \/ workers[workerTask].pc = "done"
       THEN /\ \E w \in Workers : workers[w].pc = "none"
            /\ running' = TRUE
            /\ workerTask' = FreeWorker
            /\ workers' = [workers EXCEPT ![FreeWorker] = [NoWorker EXCEPT !.pc = "new"]]
       ELSE UNCHANGED <<running, workerTask, workers>>
    /\ UNCHANGED <<now, stopWait, nStops, lim, queue, queueSeq, entries, pendingAdm,
                   cancelTasks, alertVars, fac, calls, entHist, hist>>

\* start() while no stop() is suspended on the worker task
Start == ~StopInProgress /\ StartBody

\* start() called by another task while a stop() is suspended on the worker task
StartDuringStop == StopInProgress /\ StartBody

\* ---------------------------------------------------------------- enqueue_send
\* lines 133-162: create the entry, push it, set the event, maybe alert
Admit(chat, t0, readyAt, caller, typing) ==
    LET e == Len(entries) + 1
        q == HeapPush(queue, readyAt, queueSeq + 1, e)
        delay == readyAt - t0
        alert == /\ Cardinality(q) > GlobalRate \/ delay > HeavyLoadThreshold
                 /\ NotifyDue(lastDelayAlertAt, q, now)
    IN /\ entries' = Append(entries, [chat |-> chat, retries |-> 0, enqueuedAt |-> t0,
                                      readyAt |-> readyAt, future |-> PendingFuture])
       /\ entHist' = Append(entHist, [NoEntHist EXCEPT !.typing = typing])
       /\ alertLog' = IF alert THEN Append(alertLog, AlertMessage(q, now)) ELSE alertLog
       /\ UNCHANGED <<adminChat, chatActions, metrics>>
       /\ calls' = Append(calls, [st |-> caller, out |-> PendingFuture])
       /\ queueSeq' = queueSeq + 1
       /\ queue' = q
       /\ queueEvent' = "set"
       /\ workers' = WakeAll(workers)
       /\ lastDelayAlertAt' =
            (IF Cardinality(q) > GlobalRate \/ delay > HeavyLoadThreshold
             THEN MaybeNotifyDelay(lastDelayAlertAt, q, now)
             ELSE lastDelayAlertAt)

\* line 117: start() was awaited; n bounds the entries of the model
CanEnqueue(n) ==
    /\ Quiescent
    /\ queueEvent # "none" /\ queueLock
    /\ Len(entries) + Len(pendingAdm) < n

\* a typing indicator also at the threshold
HeavyDelayAtThreshold(delay) == delay >= HeavyLoadThreshold

\* enqueue_send, line 125: the delay for which the typing indicator is sent
HeavyDelay(delay) == delay > HeavyLoadThreshold

\* an admission that also waits for the global window
ReadyAtPaced(last, win, chat, t) ==
    Max(NextAllowedForChat(last, chat, t), NextGlobalReady(TrimGlobalWindow(win, t), t))

\* enqueue_send, line 122: ready_at = self.next_allowed_for_chat(chat_id, now)
ReadyAt(last, win, chat, t) == NextAllowedForChat(last, chat, t)

\* enqueue_send up to its first suspension: the whole call when the expected delay is
\* not above the heavy-load threshold, else up to "await self._send_typing_indicator"
Enqueue(chat, caller, n) ==
    /\ CanEnqueue(n)
    /\ LET readyAt == ReadyAt(perChatLastSent, globalWindow, chat, now)
       IN IF HeavyDelay(readyAt - now)
          THEN /\ pendingAdm' = Append(pendingAdm, [chat |-> chat, t0 |-> now,
                                                    readyAt |-> readyAt, caller |-> caller])
               /\ chatActions' = [chatActions EXCEPT ![chat] = @ + 1]
               /\ UNCHANGED <<queueEvent, workers, queue, queueSeq, entries, calls,
                              entHist, lastDelayAlertAt, adminChat, alertLog, metrics>>
          ELSE /\ Admit(chat, now, readyAt, caller, "none")
               /\ UNCHANGED pendingAdm
    /\ UNCHANGED <<now, life, lim, cancelTasks, fac>>

\* enqueue_send called directly (not through messenger)
EnqueueSend(chat, n) ==
    /\ Enqueue(chat, "raw", n)
    /\ hist' = [hist EXCEPT !.nCalls = @ + 1]

\* enqueue_send raising whatever the state of the limiter
EnqueueSendRefusedAlways(n) ==
    /\ Quiescent
    /\ hist.nCalls < n
    /\ hist' = [hist EXCEPT !.nCalls = @ + 1, !.nRefused = @ + 1]
    /\ UNCHANGED <<now, life, queueEvent, workers, lim, queue, queueSeq, entries,
                   pendingAdm, cancelTasks, alertVars, fac, calls, entHist>>

\* enqueue_send called before any start(): line 117-118 raises RuntimeError
EnqueueSendRefused(n) ==
    /\ Quiescent
    /\ hist.nCalls < n
    /\ ~(queueEvent # "none" /\ queueLock)
    /\ hist' = [hist EXCEPT !.nCalls = @ + 1, !.nRefused = @ + 1]
    /\ UNCHANGED <<now, life, queueEvent, workers, lim, queue, queueSeq, entries,
                   pendingAdm, cancelTasks, alertVars, fac, calls, entHist>>

\* what send_chat_action may do
TypingResults == {"sent", "error"}

\* a typing indicator whose failure reaches enqueue_send
SendTypingIndicatorRaising(r) == IF r = "error" THEN "raised" ELSE "returned"

\* _send_typing_indicator: "except Exception" swallows the failure of send_chat_action
SendTypingIndicator(r) == "returned"

\* the list s without its i-th element
Without(s, i) == [j \in 1 .. Len(s) - 1 |-> IF j < i THEN s[j] ELSE s[j + 1]]

\* enqueue_send resumed after send_chat_action ended with r: it goes on to admit the
\* entry if _send_typing_indicator returned, else the exception ends the call
EnqueueResumed(i, r) ==
    /\ Quiescent
    /\ i \in 1 .. Len(pendingAdm)
    /\ IF SendTypingIndicator(r) = "returned"
       THEN Admit(pendingAdm[i].chat, pendingAdm[i].t0, pendingAdm[i].readyAt,
                  pendingAdm[i].caller, r)
       ELSE UNCHANGED <<queueEvent, workers, queue, queueSeq, entries, calls, entHist,
                        alertVars>>
    /\ pendingAdm' = Without(pendingAdm, i)
    /\ UNCHANGED <<now, life, lim, cancelTasks, fac, hist>>

\* enqueue_send resumed after the typing indicator was sent
EnqueueResume(i) == EnqueueResumed(i, "sent")

\* what bot.send_message of an alert may do
AlertResults == {"sent", "error"}

\* _safe_notify_admin: "except Exception" swallows the failure; what becomes of the alert
SafeNotifyAdmin(r) == IF r = "error" THEN "failed" ELSE "sent"

\* the task of alert k runs: _safe_notify_admin
AlertDelivered(k, r) ==
    /\ Quiescent
    /\ k \in 1 .. Len(alertLog)
    /\ alertLog[k].delivery = "pending"
    /\ alertLog' = [alertLog EXCEPT ![k].delivery = SafeNotifyAdmin(r)]
    /\ UNCHANGED <<now, life, queueEvent, workers, lim, queue, queueSeq, entries,
                   pendingAdm, cancelTasks, lastDelayAlertAt, adminChat, chatActions,
                   metrics, fac, calls, entHist, hist>>

\* queue_metrics or messenger.get_queue_metrics is called: the value
\* returned, with the queue, the clock and the entries in flight it was taken from
MetricsCall(viaFacade) ==
    /\ Quiescent
    /\ \E m \in (IF viaFacade
                 THEN GetQueueMetrics(limiter, queueLock, queue, entries, now)
                 ELSE QueueMetrics(queueLock, queue, entries, now)) :
          metrics' = <<[out |-> m, q |-> queue, t |-> now, started |-> queueLock,
                        flying |-> {workers[w].cur : w \in {v \in Workers :
                                                              workers[v].pc = "send"}}]>>
    /\ UNCHANGED <<now, life, queueEvent, workers, lim, queue, queueSeq, entries,
                   pendingAdm, cancelTasks, lastDelayAlertAt, adminChat, alertLog,
                   chatActions, fac, calls, entHist, hist>>

\* time passes without the event loop running anything
Sleep(d, maxT) ==
    /\ Quiescent
    /\ now + d <= maxT
    /\ now' = now + d
    /\ UNCHANGED <<life, queueEvent, workers, lim, queue, queueSeq, entries, pendingAdm,
                   cancelTasks, alertVars, fac, calls, entHist, hist>>

\* ---------------------------------------------------------------- cancellation by the caller
\* future.cancel(): _on_future_done schedules asyncio.create_task(self._cancel_entry(entry))
CancelFuture(e) ==
    /\ Quiescent
    /\ e \in EntryIds
    /\ entries[e].future.st = "pending"
    /\ entries' = [entries EXCEPT ![e].future = [st |-> "cancelled", val |-> 0]]
    /\ cancelTasks' = cancelTasks \cup {e}
    /\ UNCHANGED <<now, life, queueEvent, workers, lim, queue, queueSeq, pendingAdm,
                   alertVars, fac, calls, entHist, hist>>

\* future.cancel() by the caller while the operation of entry e is in flight
CancelInFlight(e) ==
    /\ \E w \in Workers : workers[w].pc = "send" /\ workers[w].cur = e
    /\ CancelFuture(e)

\* the queue without the first tuple found that holds entry e
RemoveEntry(q, e) ==
    IF \E x \in q : x[3] = e THEN q \ {CHOOSE x \in q : x[3] = e} ELSE q

\* _cancel_entry
CancelEntry(e) ==
    /\ Quiescent
    /\ e \in cancelTasks
    /\ queueLock /\ queueEvent # "none"
    /\ queue' = RemoveEntry(queue, e)
    /\ queueEvent' = "set"
    /\ workers' = WakeAll(workers)
    /\ cancelTasks' = cancelTasks \ {e}
    /\ UNCHANGED <<now, life, lim, queueSeq, entries, pendingAdm, alertVars, fac, calls,
                   entHist, hist>>

\* ---------------------------------------------------------------- messenger
\* the texts a caller sends
Texts == {"hello", "news"}

\* send_text with a limiter, lines 47-53: enqueue_send(bot.send_message, ...) returns
\* the future and the call goes on to "await result"
FacadeSend(chat, n) ==
    /\ limiter
    /\ hist.nCalls < n
    /\ Enqueue(chat, "awaiting", n)
    /\ hist' = [hist EXCEPT !.nCalls = @ + 1]

\* send_text with a limiter that was never started: enqueue_send raises (line 117-118)
FacadeSendRefused(n) ==
    /\ limiter
    /\ hist.nCalls < n
    /\ Quiescent
    /\ ~(queueEvent # "none" /\ queueLock)
    /\ hist' = [hist EXCEPT !.nCalls = @ + 1, !.nRefused = @ + 1]
    /\ UNCHANGED <<now, life, queueEvent, workers, lim, queue, queueSeq, entries,
                   pendingAdm, cancelTasks, alertVars, fac, calls, entHist>>

\* a send_text that returns whatever the future holds
FacadeOutcomeSwallowed(f) == [st |-> "returned", out |-> f]

\* "return await result" (line 54-55): the value of the future, or its exception raised
FacadeOutcome(f) == [st |-> IF f.st = "result" THEN "returned" ELSE "raised", out |-> f]

\* the send_text call that admitted entry e resumes, the future being done
FacadeReturn(e) ==
    /\ Quiescent
    /\ e \in EntryIds
    /\ calls[e].st = "awaiting"
    /\ Done(entries[e].future)
    /\ calls' = [calls EXCEPT ![e] = FacadeOutcome(entries[e].future)]
    /\ UNCHANGED <<now, life, queueEvent, workers, lim, queue, queueSeq, entries,
                   pendingAdm, cancelTasks, alertVars, fac, entHist, hist>>

\* what bot.send_message may do
PrimOutcomes ==
    {[st |-> "result", val |-> 7], [st |-> "RetryAfter", val |-> 0],
     [st |-> "NetworkError", val |-> 0], [st |-> "Error", val |-> 0]}

\* a forwarding that mixes up the arguments
DirectArgsSwapped(chat, text) == [chat_id |-> text, text |-> chat]

\* line 46: bot.send_message(chat_id=chat_id, text=text, **kwargs)
DirectArgs(chat, text) == [chat_id |-> chat, text |-> text]

\* "return await bot.send_message(...)": the primitive's outcome as it is
DirectOutcome(r) == [st |-> IF r.st = "result" THEN "returned" ELSE "raised", out |-> r]

\* send_text without a limiter (lines 45-46) up to the await: the primitive is invoked
FacadeDirect(chat, text, n) ==
    /\ ~limiter
    /\ Len(directCalls) < n
    /\ directCalls' = Append(directCalls,
          [args |-> <<chat, text>>, sent |-> <<DirectArgs(chat, text)>>,
           st |-> "inflight", prim |-> PendingFuture, out |-> PendingFuture])
    /\ UNCHANGED <<now, life, queueEvent, workers, lim, queue, queueSeq, entries,
                   pendingAdm, cancelTasks, alertVars, limiter, calls, entHist, hist>>

\* the primitive invoked by direct call k ends with outcome r and send_text with it
FacadeDirectEnd(k, r) ==
    /\ k \in 1 .. Len(directCalls)
    /\ directCalls[k].st = "inflight"
    /\ directCalls' = [directCalls EXCEPT ![k] =
          [@ EXCEPT !.prim = r, !.st = DirectOutcome(r).st, !.out = DirectOutcome(r).out]]
    /\ UNCHANGED <<now, life, queueEvent, workers, lim, queue, queueSeq, entries,
                   pendingAdm, cancelTasks, alertVars, limiter, calls, entHist, hist>>

\* ---------------------------------------------------------------- the dispatch worker
\* A stop() resumed by the end of the worker it awaits was made runnable before any
\* task created after that end, and the event loop runs callbacks in FIFO order.
StopResumeDue == \E v \in Workers : stopWait[v] > 0 /\ workers[v].pc = "done"

\* worker w is a task the event loop may run now
Runnable(w) ==
    /\ \A v \in Workers : v # w => workers[v].pc # "run"
    /\ \/ workers[w].pc = "run"
       \/ /\ ~workers[w].cancelReq
          /\ \/ workers[w].pc = "new" /\ ~StopResumeDue
             \/ /\ workers[w].pc = "wait"
                /\ \/ workers[w].woken
                   \/ workers[w].until # NoTime /\ now >= workers[w].until

Suspended(w, until) ==
    [workers[w] EXCEPT !.pc = "wait", !.until = until, !.woken = FALSE]

InStep(w) == [workers[w] EXCEPT !.pc = "run", !.cur = 0, !.attempt = 0,
                                !.until = NoTime, !.woken = FALSE]

\* "while self._running" is false: _next_ready_entry returns None, _worker_loop ends
WorkerExit(w) ==
    /\ Runnable(w)
    /\ ~running
    /\ workers' = [workers EXCEPT ![w] = [NoWorker EXCEPT !.pc = "done"]]
    /\ UNCHANGED <<now, life, queueEvent, lim, queue, queueSeq, entries, pendingAdm,
                   cancelTasks, alertVars, fac, calls, entHist, hist>>

\* _next_ready_entry: the queue is empty or its head is not due; clear the event and
\* wait for it (with the head's delay as timeout)
WorkerWait(w) ==
    /\ Runnable(w)
    /\ running
    /\ IF queue = {} THEN TRUE ELSE QueueHead[1] - now > 0
    /\ queueEvent' = "clear"
    /\ workers' = [workers EXCEPT ![w] =
                     Suspended(w, IF queue = {} THEN NoTime ELSE QueueHead[1])]
    /\ UNCHANGED <<now, life, lim, queue, queueSeq, entries, pendingAdm, cancelTasks,
                   alertVars, fac, calls, entHist, hist>>

\* the head is due: _next_ready_entry pops it
HeadDue(w) ==
    /\ Runnable(w)
    /\ running
    /\ queue # {}
    /\ QueueHead[1] - now <= 0

\* a requeue under the time of admission
RequeueAtAdmission(w, e, readyAt) ==
    /\ queueSeq' = queueSeq + 1
    /\ entries' = [entries EXCEPT ![e].readyAt = entries[e].enqueuedAt]
    /\ queue' = HeapPush(HeapPop(queue, QueueHead), entries[e].enqueuedAt,
                         queueSeq + 1, e)
    /\ queueEvent' = "set"
    /\ workers' = [WakeAll(workers) EXCEPT ![w] = InStep(w)]

\* a requeue that counts as a retry
RequeueCounted(w, e, readyAt) ==
    /\ queueSeq' = queueSeq + 1
    /\ entries' = [entries EXCEPT ![e].readyAt = readyAt, ![e].retries = @ + 1]
    /\ queue' = HeapPush(HeapPop(queue, QueueHead), readyAt, queueSeq + 1, e)
    /\ queueEvent' = "set"
    /\ workers' = [WakeAll(workers) EXCEPT ![w] = InStep(w)]

\* _requeue of entry e, popped by worker w
Requeue(w, e, readyAt) ==
    /\ queueSeq' = queueSeq + 1
    /\ entries' = [entries EXCEPT ![e].readyAt = readyAt]
    /\ queue' = HeapPush(HeapPop(queue, QueueHead), readyAt, queueSeq + 1, e)
    /\ queueEvent' = "set"
    /\ workers' = [WakeAll(workers) EXCEPT ![w] = InStep(w)]

\* _handle_ready_entry: the global window is full
WorkerRequeueGlobal(w) ==
    /\ HeadDue(w)
    /\ ~CanSendGlobal(globalWindow, now)
    /\ globalWindow' = TrimGlobalWindow(globalWindow, now)
    /\ Requeue(w, QueueHead[3], NextGlobalReady(TrimGlobalWindow(globalWindow, now), now))
    /\ UNCHANGED <<now, life, perChatLastSent, pendingAdm, cancelTasks, alertVars, fac,
                   calls, entHist, hist>>

\* _handle_ready_entry: the chat's cooldown has not elapsed
WorkerRequeueChat(w) ==
    /\ HeadDue(w)
    /\ CanSendGlobal(globalWindow, now)
    /\ NextAllowedForChat(perChatLastSent, entries[QueueHead[3]].chat, now) > now
    /\ globalWindow' = TrimGlobalWindow(globalWindow, now)
    /\ Requeue(w, QueueHead[3],
               NextAllowedForChat(perChatLastSent, entries[QueueHead[3]].chat, now))
    /\ UNCHANGED <<now, life, perChatLastSent, pendingAdm, cancelTasks, alertVars, fac,
                   calls, entHist, hist>>

\* _handle_ready_entry passes both checks; _dispatch_entry up to "await entry.method(...)"
WorkerDispatch(w) ==
    /\ HeadDue(w)
    /\ CanSendGlobal(globalWindow, now)
    /\ ~(NextAllowedForChat(perChatLastSent, entries[QueueHead[3]].chat, now) > now)
    /\ globalWindow' = TrimGlobalWindow(globalWindow, now)
    /\ queue' = HeapPop(queue, QueueHead)
    /\ workers' = [workers EXCEPT ![w] =
          [workers[w] EXCEPT !.pc = "send", !.cur = QueueHead[3],
                             !.attempt = entries[QueueHead[3]].retries,
                             !.until = NoTime, !.woken = FALSE]]
    /\ HistInvoke(QueueHead[3], now)
    /\ UNCHANGED <<now, life, queueEvent, perChatLastSent, queueSeq, entries, pendingAdm,
                   cancelTasks, alertVars, fac, calls>>

\* entry.method of worker w is suspended and was not cancelled
Sending(w) ==
    /\ Quiescent
    /\ workers[w].pc = "send"
    /\ ~workers[w].cancelReq

\* entry.method returned: lines 342-347
CompleteOk(w) ==
    /\ Sending(w)
    /\ LET e == workers[w].cur
       IN /\ globalWindow' = RecordGlobal(globalWindow, now)
          /\ perChatLastSent' = RecordChatSend(perChatLastSent, entries[e].chat, now)
          /\ entries' = ResolveEntry([entries EXCEPT ![e].retries = 0], e,
                                     OpResult(e, entHist[e].invoked))
          /\ HistOutcome(e, "ok", now, 0)
          /\ hist' = [hist EXCEPT !.ok = LastN(Append(@, now), GlobalRate),
                                  !.chatOk[entries[e].chat] = now]
    /\ workers' = [workers EXCEPT ![w] = InStep(w)]
    /\ UNCHANGED <<now, life, queueEvent, queue, queueSeq, pendingAdm, cancelTasks,
                   alertVars, fac, calls>>

\* failure branches that record the attempt as a send
TrackersAfterFailureRecorded(win, last, chat, t) ==
    <<RecordGlobal(win, t), RecordChatSend(last, chat, t)>>

\* lines 291-341: the failure branches call neither record_global nor
\* record_chat_send; the window and the cooldown map after such a branch
TrackersAfterFailure(win, last, chat, t) == <<win, last>>

\* the failed invocation of worker w leaves its mark, if any, on the window and the map
FailureTracked(w) ==
    LET after == TrackersAfterFailure(globalWindow, perChatLastSent,
                                      entries[workers[w].cur].chat, now)
    IN globalWindow' = after[1] /\ perChatLastSent' = after[2]

\* a retry limit that allows one attempt more
ExhaustedLate(attempt) == attempt > MaxRetryAttempts + 1

\* lines 293 and 315: attempt > self._max_retry_attempts
Exhausted(attempt) == attempt > MaxRetryAttempts

\* the retry branches: count the attempt, then reject with exc or requeue after delay
RetryOrReject(w, exc, delay) ==
    LET e == workers[w].cur
        attempt == workers[w].attempt + 1
    IN IF Exhausted(attempt)
       THEN /\ entries' = RejectEntry(entries, e, exc)
            /\ workers' = [workers EXCEPT ![w] = InStep(w)]
            /\ UNCHANGED <<queue, queueSeq, queueEvent>>
       ELSE /\ queueSeq' = queueSeq + 1
            /\ entries' = [entries EXCEPT ![e].retries = attempt, ![e].readyAt = now + delay]
            /\ queue' = HeapPush(queue, now + delay, queueSeq + 1, e)
            /\ queueEvent' = "set"
            /\ workers' = [WakeAll(workers) EXCEPT ![w] = InStep(w)]

\* a retry delay that is the server's retry_after alone
RetryAfterDelayServerOnly(d, attempt) == d

\* a retry delay that ignores the server's retry_after
RetryAfterDelayBackoffOnly(d, attempt) == RetryBackoff(attempt)

\* line 302: max(float(exc.retry_after), self._retry_backoff(attempt))
RetryAfterDelay(d, attempt) == Max(d, RetryBackoff(attempt))

\* entry.method raised RetryAfter(retry_after = d): lines 291-312
CompleteRetryAfter(w, d) ==
    /\ Sending(w)
    /\ RetryOrReject(w, "RetryAfter", RetryAfterDelay(d, workers[w].attempt + 1))
    /\ HistOutcome(workers[w].cur, "rl", now, d)
    /\ FailureTracked(w)
    /\ UNCHANGED <<now, life, pendingAdm, cancelTasks, alertVars, fac, calls, hist>>

\* entry.method raised TimedOut or NetworkError: lines 313-333
CompleteNetworkError(w) ==
    /\ Sending(w)
    /\ RetryOrReject(w, "NetworkError", RetryBackoff(workers[w].attempt + 1))
    /\ HistOutcome(workers[w].cur, "net", now, 0)
    /\ FailureTracked(w)
    /\ UNCHANGED <<now, life, pendingAdm, cancelTasks, alertVars, fac, calls, hist>>

\* a failure that leaves the handle unresolved
FailUnnoticed(es, e) == es

\* what the generic "except Exception" branch does with the entry: lines 334-341
FailPermanently(es, e) == RejectEntry(es, e, "Error")

\* entry.method raised any other Exception
CompleteError(w) ==
    /\ Sending(w)
    /\ entries' = FailPermanently(entries, workers[w].cur)
    /\ workers' = [workers EXCEPT ![w] = InStep(w)]
    /\ HistOutcome(workers[w].cur, "err", now, 0)
    /\ FailureTracked(w)
    /\ UNCHANGED <<now, life, queueEvent, queue, queueSeq, pendingAdm, cancelTasks,
                   alertVars, fac, calls, hist>>

\* lines 288-290: except asyncio.CancelledError: self._reject_entry(entry, exc); raise
CancelledInFlight(es, e) == RejectEntry(es, e, "CancelledError")

\* the worker task is cancelled by stop(): CancelledError is raised at its suspension
\* point (lines 288-290 when it is inside entry.method), and _worker_loop ends
WorkerCancelled(w) ==
    /\ Quiescent
    /\ workers[w].cancelReq
    /\ workers[w].pc \in {"new", "wait", "send"}
    /\ IF workers[w].pc = "send"
       THEN /\ entries' = CancelledInFlight(entries, workers[w].cur)
            /\ HistOutcome(workers[w].cur, "cxl", now, 0)
       ELSE UNCHANGED <<entries, entHist>>
    /\ workers' = [workers EXCEPT ![w] = [NoWorker EXCEPT !.pc = "done"]]
    /\ UNCHANGED <<now, life, queueEvent, lim, queue, queueSeq, pendingAdm, cancelTasks,
                   alertVars, fac, calls, hist>>

\* ---------------------------------------------------------------- stop
WorkerAlive == workerTask # 0 /\ workers[workerTask].pc # "done"

\* lines 101-105
Flush ==
    IF queueLock
    THEN /\ entries' = FlushQueue(entries, queue)
         /\ queue' = {}
    ELSE UNCHANGED <<entries, queue>>

\* stop() up to "await self._worker_task", the worker task not being done; at most n
\* calls of stop() are made
StopBeginN(n) ==
    /\ Quiescent
    /\ nStops < n
    /\ WorkerAlive
    /\ nStops' = nStops + 1
    /\ running' = FALSE
    /\ queueEvent' = EventSet(queueEvent)
    /\ workers' = [WakeAll(workers) EXCEPT ![workerTask].cancelReq = TRUE]
    /\ stopWait' = [stopWait EXCEPT ![workerTask] = @ + 1]
    /\ HistStop
    /\ UNCHANGED <<now, queueLock, workerTask, lim, queue, queueSeq, entries, pendingAdm,
                   cancelTasks, alertVars, fac, calls, hist>>

\* stop() resumed when the awaited worker task is done: lines 99-105
StopResume(w) ==
    /\ Quiescent
    /\ stopWait[w] > 0
    /\ workers[w].pc = "done"
    /\ stopWait' = [stopWait EXCEPT ![w] = @ - 1]
    /\ workerTask' = 0
    /\ Flush
    /\ UNCHANGED <<now, running, queueEvent, queueLock, nStops, workers, lim, queueSeq,
                   pendingAdm, cancelTasks, alertVars, fac, calls, entHist, hist>>

\* stop() with no worker task, or with one that is done: it does not suspend; at most
\* n calls of stop() are made
StopNowN(n) ==
    /\ Quiescent
    /\ nStops < n
    /\ ~WorkerAlive
    /\ nStops' = nStops + 1
    /\ running' = FALSE
    /\ queueEvent' = EventSet(queueEvent)
    /\ workers' = WakeAll(workers)
    /\ workerTask' = 0
    /\ Flush
    /\ HistStop
    /\ UNCHANGED <<now, queueLock, stopWait, lim, queueSeq, pendingAdm, cancelTasks,
                   alertVars, fac, calls, hist>>

StopBegin == StopBeginN(MaxStops)
StopNow == StopNowN(MaxStops)

\* ---------------------------------------------------------------- specifications
\* a step of worker w of a running scheduler
WorkerStep(w) ==
    \/ WorkerWait(w)
    \/ WorkerRequeueGlobal(w)
    \/ WorkerRequeueChat(w)
    \/ WorkerDispatch(w)

\* the invocation of worker w ends
Complete(w) ==
    \/ CompleteOk(w)
    \/ \E d \in RetryAfterSet : CompleteRetryAfter(w, d)
    \/ CompleteNetworkError(w)
    \/ CompleteError(w)

\* stop() and what it makes the worker do
Stopping ==
    \/ StopBegin
    \/ StopNow
    \/ \E w \in Workers : StopResume(w)
    \/ \E w \in Workers : WorkerCancelled(w)

\* The scheduler with its whole life cycle: start, admissions for one recipient,
\* dispatch with every outcome, cancellation by the caller, stop and restart.
Next ==
    \/ Tick(MaxTime)
    \/ Start
    \/ Stopping
    \/ \E c \in OneChat : EnqueueSend(c, MaxEntries)
    \/ \E i \in 1 .. MaxEntries : EnqueueResume(i)
    \/ \E e \in 1 .. MaxEntries : CancelFuture(e)
    \/ \E e \in 1 .. MaxEntries : CancelEntry(e)
    \/ \E w \in Workers : WorkerStep(w)
    \/ \E w \in Workers : Complete(w)

Spec == Init /\ [][Next]_vars

\* A started scheduler that is never stopped and whose callers never cancel: pacing of
\* two recipients.
NextPace ==
    \/ Tick(PaceTime)
    \/ Start
    \/ \E c \in Chats : EnqueueSend(c, PaceEntries)
    \/ \E i \in 1 .. PaceEntries : EnqueueResume(i)
    \/ \E w \in Workers : WorkerStep(w)
    \/ \E w \in Workers : Complete(w)

SpecPace == Init /\ [][NextPace]_vars

\* A started scheduler serving one recipient whose operations may fail in every way:
\* the retry policy up to exhaustion.
NextRetry ==
    \/ Tick(RetryTime)
    \/ Start
    \/ \E c \in OneChat : EnqueueSend(c, RetryEntries)
    \/ \E i \in 1 .. RetryEntries : EnqueueResume(i)
    \/ \E w \in Workers : WorkerStep(w)
    \/ \E w \in Workers : CompleteOk(w)
    \/ \E w \in Workers, d \in RetryAfterBoth : CompleteRetryAfter(w, d)
    \/ \E w \in Workers : CompleteNetworkError(w)
    \/ \E w \in Workers : CompleteError(w)

SpecRetry == Init /\ [][NextRetry]_vars

\* A started scheduler serving one recipient whose operations all succeed: the order
\* of dispatch of three entries.
NextOrder ==
    \/ Tick(OrderTime)
    \/ Start
    \/ \E c \in OneChat : EnqueueSend(c, OrderEntries)
    \/ \E i \in 1 .. OrderEntries : EnqueueResume(i)
    \/ \E w \in Workers : WorkerStep(w)
    \/ \E w \in Workers : CompleteOk(w)

SpecOrder == Init /\ [][NextOrder]_vars

\* The messenger configured with a limiter or without one; with one, every send goes
\* through send_text and the scheduler lives its whole life cycle.
NextFacade ==
    \/ Tick(FacadeTime)
    \/ limiter /\ Start
    \/ limiter /\ Stopping
    \/ \E c \in OneChat : FacadeSend(c, FacadeCalls)
    \/ FacadeSendRefused(FacadeCalls)
    \/ \E i \in 1 .. FacadeCalls : EnqueueResume(i)
    \/ \E e \in 1 .. FacadeCalls : CancelFuture(e)
    \/ \E e \in 1 .. FacadeCalls : CancelEntry(e)
    \/ \E e \in 1 .. FacadeCalls : FacadeReturn(e)
    \/ \E w \in Workers : WorkerStep(w)
    \/ \E w \in Workers : Complete(w)
    \/ \E c \in Chats, x \in Texts : FacadeDirect(c, x, FacadeCalls)
    \/ \E k \in 1 .. FacadeCalls, r \in PrimOutcomes : FacadeDirectEnd(k, r)

SpecFacade == InitFacade /\ [][NextFacade]_vars

\* the metrics read at any moment, from the limiter or through the messenger, which
\* may have no limiter; two chats, successes and RetryAfter
NextMetrics ==
    \/ Tick(MetricsTime)
    \/ limiter /\ Start
    \/ \E c \in Chats : EnqueueSend(c, MetricsEntries)
    \/ \E i \in 1 .. MetricsEntries : EnqueueResume(i)
    \/ \E w \in Workers : WorkerStep(w)
    \/ \E w \in Workers : CompleteOk(w)
    \/ \E w \in Workers, d \in RetryAfterSet : CompleteRetryAfter(w, d)
    \/ limiter /\ MetricsCall(FALSE)
    \/ MetricsCall(TRUE)

SpecMetrics == InitFacade /\ [][NextMetrics]_vars

\* the last moment inside the cooldown of an alert created at time 0
AdmitLate == DelayAlertCooldown - 1

\* admissions with their side effects (typing indicator, delay alert), before start
\* and after it, in the first AdmitEarly ticks and around the end of the alert
\* cooldown; one recipient, every operation succeeds
NextAdmit ==
    \/ Tick(AdmitEarly)
    \/ Sleep(AdmitLate - AdmitEarly, AdmitLate)
    \/ now >= AdmitLate - AdmitEarly /\ Tick(AdmitLate + 1)
    \/ Start
    \/ \E c \in OneChat : EnqueueSend(c, AdmitEntries)
    \/ EnqueueSendRefused(AdmitEntries)
    \/ \E i \in 1 .. AdmitEntries, r \in TypingResults : EnqueueResumed(i, r)
    \/ \E k \in 1 .. AdmitEntries, r \in AlertResults : AlertDelivered(k, r)
    \/ \E w \in Workers : WorkerStep(w)
    \/ \E w \in Workers : CompleteOk(w)

SpecAdmit == InitAdmit /\ [][NextAdmit]_vars

\* start() and stop() called in any order and interleaving, a start() also while a
\* stop() is suspended on the worker task; one recipient, every operation succeeds
NextLife ==
    \/ Tick(LifeTime)
    \/ Start
    \/ StartDuringStop
    \/ StopBeginN(LifeStops)
    \/ StopNowN(LifeStops)
    \/ \E w \in Workers : StopResume(w)
    \/ \E w \in Workers : WorkerCancelled(w)
    \/ \E c \in OneChat : EnqueueSend(c, LifeEntries)
    \/ \E i \in 1 .. LifeEntries : EnqueueResume(i)
    \/ \E w \in Workers : WorkerStep(w)
    \/ \E w \in Workers : CompleteOk(w)

SpecLife == Init /\ [][NextLife]_vars

\* A started scheduler whose callers cancel a handle only while its operation is in
\* flight; one recipient, every outcome of an invocation.
NextCancel ==
    \/ Tick(CancelTime)
    \/ Start
    \/ \E c \in OneChat : EnqueueSend(c, CancelEntries)
    \/ \E i \in 1 .. CancelEntries : EnqueueResume(i)
    \/ \E e \in 1 .. CancelEntries : CancelInFlight(e)
    \/ \E e \in 1 .. CancelEntries : CancelEntry(e)
    \/ \E w \in Workers : WorkerStep(w)
    \/ \E w \in Workers : Complete(w)

SpecCancel == Init /\ [][NextCancel]_vars

\* record_global(now) called on the limiter, as the tests do
RecordGlobalCall ==
    /\ Len(TrimGlobalWindow(globalWindow, now)) < TrackRecords
    /\ globalWindow' = RecordGlobal(globalWindow, now)
    /\ UNCHANGED <<now, life, queueEvent, workers, perChatLastSent, queue, queueSeq,
                   entries, pendingAdm, cancelTasks, alertVars, fac, calls, entHist, hist>>

\* can_send_global(now) called on the limiter: the window is pruned
CanSendGlobalCall ==
    /\ globalWindow' = TrimGlobalWindow(globalWindow, now)
    /\ UNCHANGED <<now, life, queueEvent, workers, perChatLastSent, queue, queueSeq,
                   entries, pendingAdm, cancelTasks, alertVars, fac, calls, entHist, hist>>

\* record_chat_send(chat, t) called on the limiter with any timestamp t; the history
\* keeps the timestamp passed last
RecordChatSendCall(chat, t) ==
    /\ perChatLastSent' = RecordChatSend(perChatLastSent, chat, t)
    /\ hist' = [hist EXCEPT !.chatOk[chat] = t]
    /\ UNCHANGED <<now, life, queueEvent, workers, globalWindow, queue, queueSeq,
                   entries, pendingAdm, cancelTasks, alertVars, fac, calls, entHist>>

\* The window and the cooldown map used on their own, through the public methods of
\* a limiter that was not started.
NextTrack ==
    \/ Tick(TrackTime)
    \/ RecordGlobalCall
    \/ CanSendGlobalCall
    \/ \E c \in Chats, t \in 0 .. TrackTime : RecordChatSendCall(c, t)

SpecTrack == Init /\ [][NextTrack]_vars

\* time passes only when no worker task can run and no operation is in flight: the
\* worker is never late and an invocation takes no time
LiveTick ==
    /\ \A w \in Workers : ~Runnable(w) /\ workers[w].pc # "send"
    /\ Tick(LiveTime)

\* The life cycle with admissions at time 0 only, so that every ready_at lies within
\* LiveTime; one recipient, every operation succeeds.
NextLive ==
    \/ LiveTick
    \/ Start
    \/ StopBegin
    \/ StopNow
    \/ \E w \in Workers : StopResume(w)
    \/ \E w \in Workers : WorkerCancelled(w)
    \/ \E c \in OneChat : now = 0 /\ EnqueueSend(c, LiveEntries)
    \/ \E i \in 1 .. LiveEntries : EnqueueResume(i)
    \/ \E w \in Workers : WorkerStep(w)
    \/ \E w \in Workers : CompleteOk(w)

\* the event loop runs every task that can run, every operation and every typing
\* indicator ends, and time passes; start(), stop() and enqueue_send are the caller's
Fairness ==
    /\ WF_vars(LiveTick)
    /\ \A w \in Workers : WF_vars(WorkerStep(w))
    /\ \A w \in Workers : WF_vars(CompleteOk(w))
    /\ \A w \in Workers : WF_vars(WorkerCancelled(w))
    /\ \A w \in Workers : WF_vars(StopResume(w))
    /\ \A i \in 1 .. LiveEntries : WF_vars(EnqueueResume(i))

SpecLive == Init /\ [][NextLive]_vars /\ Fairness

\* ---------------------------------------------------------------- what a step does
\* the operation of entry e is invoked in this step ("await entry.method(...)")
InvokedNow(e) == entHist'[e].invoked > entHist[e].invoked

\* the invocation of entry e returns normally in this step
SucceedsNow(e) ==
    \E w \in Workers :
        /\ workers[w].pc = "send" /\ workers[w].cur = e
        /\ workers'[w].pc = "run"
        /\ entHist'[e].last = "ok"

C3_CancelledNeverInvoked ==
    [][\A e \in EntryIds :
          entries[e].future.st = "cancelled" /\ entHist[e].invoked = 0
              => ~InvokedNow(e)]_vars

\* ---------------------------------------------------------------- C4
\* a call of stop() returns in this step
StopReturns ==
    \/ nStops' > nStops /\ ~WorkerAlive
    \/ \E w \in Workers : stopWait'[w] < stopWait[w]

\* C4: when a stop() returns the queue is empty and every entry that was queued when a
\* stop() began has its handle rejected with "RateLimiter stopped" (a handle the caller
\* cancelled stays cancelled); no entry that was queued when a stop() began is invoked
\* afterwards.
C4_StopRejectsQueued ==
    [][/\ StopReturns =>
             /\ queue' = {}
             /\ \A e \in EntryIds :
                   entHist'[e].atStop /\ entries'[e].future.st # "cancelled"
                       => entries'[e].future.st = "Stopped"
       /\ \A e \in EntryIds : entHist[e].atStop => ~InvokedNow(e)]_vars

\* a stop() that found two entries queued has returned and both were rejected
C4_TwoQueuedRejected ==
    /\ nStops > 0 /\ ~StopInProgress
    /\ \E e1, e2 \in EntryIds :
          /\ e1 # e2
          /\ entHist[e1].atStop /\ entries[e1].future.st = "Stopped"
          /\ entHist[e2].atStop /\ entries[e2].future.st = "Stopped"

\* ---------------------------------------------------------------- C5
\* C5: a handle that is done (result, error, cancelled or rejected by stop) is never
\* given another outcome: after any dispatch outcome, retry, cancellation or stop it
\* keeps the outcome it had.
C5_ResolvedOnce ==
    [][\A e \in EntryIds :
          Done(entries[e].future) => entries'[e].future = entries[e].future]_vars

\* the operation of an entry returned although its handle was already cancelled, and
\* the handle is still cancelled
C5_ResultAfterCancel ==
    \E e \in EntryIds : entries[e].future.st = "cancelled" /\ entHist[e].last = "ok"

\* ---------------------------------------------------------------- C10
\* C10: after an invocation of an entry raised an error that is neither RetryAfter nor
\* TimedOut/NetworkError, the entry is neither queued nor in flight, its handle holds
\* that error (unless the caller had cancelled it), and its operation is never invoked
\* again.
C10_OtherErrorIsFinal ==
    [][\A e \in EntryIds :
          entHist'[e].last = "err" =>
              /\ \A x \in queue' : x[3] # e
              /\ \A w \in Workers : ~(workers'[w].pc = "send" /\ workers'[w].cur = e)
              /\ entries'[e].future.st \in {"Error", "cancelled"}
              /\ entries[e].future.st = "pending" /\ entHist[e].last # "err"
                     => entries'[e].future.st = "Error"
              /\ entHist[e].last = "err" => ~InvokedNow(e)]_vars

\* an entry failed with such an error at its first invocation and time went on
C10_FailedAtOnce ==
    \E e \in EntryIds :
        /\ entHist[e].last = "err" /\ entHist[e].invoked = 1
        /\ entries[e].future.st = "Error"
        /\ now > entries[e].enqueuedAt

\* ---------------------------------------------------------------- C6
\* the operation of entry e is suspended in "await entry.method(...)"
InFlight(e) == \E w \in Workers : workers[w].pc = "send" /\ workers[w].cur = e

\* entry e, all of whose invocations raised RetryAfter, after one of them: either it
\* waits in the queue for a retry not earlier than retry_after past the failure, or
\* it failed for good after MaxRetryAttempts retries
RetryAfterSettled(e) ==
    IF entHist[e].invoked <= MaxRetryAttempts
    THEN /\ entries[e].future.st = "pending"
         /\ \E x \in queue : x[3] = e /\ x[1] >= entHist[e].failAt + entHist[e].failD
    ELSE /\ entHist[e].invoked = MaxRetryAttempts + 1
         /\ entries[e].future.st = "RetryAfter"
         /\ \A x \in queue : x[3] # e

\* C6: an entry whose operation raises RetryAfter(D) at every invocation is requeued
\* after each of its first MaxRetryAttempts failures and invoked again no earlier
\* than D after that failure; when invocation number MaxRetryAttempts + 1 fails, its
\* handle is rejected with the RetryAfter error and the entry is neither queued nor
\* invoked again.
C6_RetryAfterExhaustion ==
    [][\A e \in EntryIds :
          /\ (entHist[e].rlOnly /\ entHist[e].last = "rl" /\ ~InFlight(e)
                 => RetryAfterSettled(e))'
          /\ entHist[e].rlOnly /\ entHist[e].last = "rl" /\ InvokedNow(e)
                 => /\ now >= entHist[e].failAt + entHist[e].failD
                    /\ entHist'[e].invoked <= MaxRetryAttempts + 1
          /\ entries[e].future.st = "RetryAfter" => ~InvokedNow(e)]_vars

\* an entry was invoked MaxRetryAttempts + 1 times, each time with RetryAfter, and
\* failed for good
C6_Exhausted ==
    \E e \in EntryIds :
        /\ entHist[e].rlOnly /\ entHist[e].last = "rl"
        /\ entHist[e].invoked = MaxRetryAttempts + 1
        /\ entries[e].future.st = "RetryAfter"

\* ---------------------------------------------------------------- C7
\* C7: of two entries for the same recipient, neither of which was retried, the one
\* admitted later is not invoked before the one admitted earlier.
C7_AdmissionOrderKept ==
    \A e1, e2 \in EntryIds :
        /\ e1 < e2 /\ entries[e1].chat = entries[e2].chat
        /\ entHist[e1].last \in {"none", "ok"} /\ entHist[e2].last \in {"none", "ok"}
        /\ entHist[e2].invoked > 0
        => entHist[e1].invoked > 0

\* ---------------------------------------------------------------- C8
\* C8: with a limiter configured (and started), every send_text call admits exactly
\* one entry and the bot is never called directly; a call that has returned returned
\* the value of the successful invocation of its entry, and a call that has raised
\* raised the terminal error held by the handle of its entry.
C8_FacadeThroughScheduler ==
    limiter =>
        /\ directCalls = <<>>
        /\ Len(entries) + Len(pendingAdm) = hist.nCalls - hist.nRefused
        /\ \A e \in EntryIds :
              /\ calls[e].st \in {"awaiting", "returned", "raised"}
              /\ calls[e].st = "returned" =>
                    /\ entries[e].future.st = "result"
                    /\ entHist[e].last = "ok"
                    /\ calls[e].out = [st |-> "result",
                                        val |-> OpResult(e, entHist[e].invoked)]
              /\ calls[e].st = "raised" =>
                    /\ entries[e].future.st \in {"Error", "RetryAfter", "NetworkError",
                                                  "cancelled", "Stopped", "CancelledError"}
                    /\ calls[e].out = entries[e].future

\* one send_text call has returned its entry's value and another has raised its
\* entry's error
C8_OneReturnedOneRaised ==
    /\ limiter
    /\ \E e1, e2 \in EntryIds : calls[e1].st = "returned" /\ calls[e2].st = "raised"

\* ---------------------------------------------------------------- C9
\* C9: without a limiter, every send_text call has invoked bot.send_message exactly
\* once, with the caller's chat_id and text, when it returns; it returns the value or
\* raises the error of that invocation unchanged, also a RetryAfter or a NetworkError;
\* nothing is queued and no limiter state is touched.
C9_FacadeDirect ==
    ~limiter =>
        /\ entries = <<>> /\ pendingAdm = <<>> /\ queue = {}
        /\ globalWindow = <<>> /\ \A c \in Chats : perChatLastSent[c] = NoTime
        /\ \A k \in 1 .. Len(directCalls) :
              LET d == directCalls[k]
              IN /\ d.sent = <<[chat_id |-> d.args[1], text |-> d.args[2]]>>
                 /\ d.st # "inflight" =>
                       /\ d.out = d.prim /\ d.prim \in PrimOutcomes
                       /\ d.st = "returned" <=> d.prim.st = "result"

\* without a limiter one call has returned the bot's value and another has raised the
\* bot's RetryAfter, each after one invocation
C9_OneReturnedOneRateLimited ==
    /\ ~limiter
    /\ \E k1, k2 \in 1 .. Len(directCalls) :
          /\ directCalls[k1].st = "returned"
          /\ directCalls[k2].st = "raised" /\ directCalls[k2].out.st = "RetryAfter"

\* ---------------------------------------------------------------- C11
\* the invocation of entry e ends in this step with outcome k
EndsNow(e, k) ==
    \E w \in Workers :
        /\ workers[w].pc = "send" /\ workers[w].cur = e
        /\ workers'[w].pc = "run"
        /\ entHist'[e].last = k

\* C11: an entry all of whose invocations raise TimedOut/NetworkError is requeued at
\* the failure of invocation k <= MaxRetryAttempts with ready_at exactly
\* RetryBaseDelay * 2^(k-1) after the failure, is not invoked before that time, and at
\* the failure of invocation MaxRetryAttempts + 1 its handle is rejected with the
\* network error, the entry being neither queued nor invoked again.
C11_NetworkBackoffExhaustion ==
    [][\A e \in EntryIds :
          LET k == entHist[e].invoked
          IN /\ entHist'[e].netOnly /\ EndsNow(e, "net") =>
                   IF k <= MaxRetryAttempts
                   THEN /\ entries'[e].future.st = "pending"
                        /\ \E x \in queue' :
                              x[3] = e /\ x[1] = now + RetryBaseDelay * 2^(k - 1)
                   ELSE /\ k = MaxRetryAttempts + 1
                        /\ entries'[e].future.st = "NetworkError"
                        /\ \A x \in queue' : x[3] # e
             /\ entHist[e].netOnly /\ entHist[e].last = "net" /\ InvokedNow(e)
                   => /\ k <= MaxRetryAttempts
                      /\ now >= entHist[e].failAt + RetryBaseDelay * 2^(k - 1)
             /\ entries[e].future.st = "NetworkError" => ~InvokedNow(e)]_vars

\* an entry was invoked MaxRetryAttempts + 1 times, each time with a network error,
\* and failed for good
C11_NetworkExhausted ==
    \E e \in EntryIds :
        /\ entHist[e].netOnly /\ entHist[e].last = "net"
        /\ entHist[e].invoked = MaxRetryAttempts + 1
        /\ entries[e].future.st = "NetworkError"

\* ---------------------------------------------------------------- C12
\* the delay the claim gives for retry number r after RetryAfter(d)
SignalledDelay(d, r) ==
    IF d >= RetryBaseDelay * 2^(r - 1) THEN d ELSE RetryBaseDelay * 2^(r - 1)

\* C12: when an invocation raises RetryAfter(D) and the entry had fewer than
\* MaxRetryAttempts retries, its retries count is incremented to r and it is requeued
\* with ready_at = failure time + max(D, RetryBaseDelay * 2^(r-1)); it is not invoked
\* again before that time. If the first invocation was rate-limited and the second
\* returns, the handle holds the value of the second invocation and there is no third.
C12_RetryAfterRequeue ==
    [][\A e \in EntryIds :
          /\ EndsNow(e, "rl") /\ entries[e].retries < MaxRetryAttempts =>
                LET r == entries'[e].retries
                    at == now + SignalledDelay(entHist'[e].failD, r)
                IN /\ r = entries[e].retries + 1
                   /\ entries'[e].readyAt = at
                   /\ \E x \in queue' : x[3] = e /\ x[1] = at
                   /\ entries'[e].future.st = "pending"
          /\ entHist[e].last = "rl" /\ InvokedNow(e) =>
                now >= entHist[e].failAt
                         + SignalledDelay(entHist[e].failD, entries[e].retries)
          /\ entHist[e].last = "rl" /\ entHist[e].invoked = 2 /\ SucceedsNow(e) =>
                entries'[e].future = [st |-> "result", val |-> OpResult(e, 2)]
          /\ entries[e].future.st = "result" => ~InvokedNow(e)]_vars

\* an entry was rate-limited twice, the second time with a retry_after shorter than
\* the backoff, and waits in the queue for its third invocation
C12_RequeuedByBackoff ==
    \E e \in EntryIds :
        /\ entHist[e].rlOnly /\ entHist[e].last = "rl" /\ entHist[e].invoked = 2
        /\ entHist[e].failD < RetryBaseDelay * 2
        /\ \E x \in queue : x[3] = e /\ x[1] = entHist[e].failAt + RetryBaseDelay * 2

\* ---------------------------------------------------------------- C13
\* C13: when the invocation of an entry returns, the time of the return is the newest
\* timestamp of the global window and the cooldown value of the entry's recipient,
\* the entry's retries is 0 and its handle holds the value the invocation returned.
C13_SuccessRecorded ==
    [][\A e \in EntryIds :
          SucceedsNow(e) =>
              /\ globalWindow' # <<>>
              /\ globalWindow'[Len(globalWindow')] = now
              /\ perChatLastSent'[entries[e].chat] = now
              /\ \A c \in Chats \ {entries[e].chat} :
                    perChatLastSent'[c] = perChatLastSent[c]
              /\ entries'[e].retries = 0
              /\ entries'[e].future =
                    [st |-> "result", val |-> OpResult(e, entHist[e].invoked)]]_vars

\* an entry succeeded at its second invocation, after a retry, and the time of the
\* success is recorded for its recipient and in the window
C13_SuccessAfterRetry ==
    \E e \in EntryIds :
        /\ entHist[e].last = "ok" /\ entHist[e].invoked = 2
        /\ entries[e].retries = 0 /\ entries[e].future.st = "result"
        /\ perChatLastSent[entries[e].chat] = now /\ now > 0
        /\ globalWindow = <<now>>

\* ---------------------------------------------------------------- C14
\* C14: metrics read while no entry is queued (the queue is empty, the limiter was
\* never started, or the messenger has no limiter) are all zero: depth 0, largest
\* delay 0, mean delay 0, delay of the worst chat 0, and no worst chat.
C14_NoEntryZeroMetrics ==
    Len(metrics) = 1 /\ metrics[1].q = {} =>
        /\ metrics[1].out.queue_depth = 0
        /\ metrics[1].out.max_delay_sec = 0
        /\ metrics[1].out.avg_delay_sec[1] = 0
        /\ metrics[1].out.max_delay_chat_id = "None"
        /\ metrics[1].out.max_delay_chat_sec = 0

\* metrics were read from a started limiter whose only entry was in flight
C14_ReadWhileInFlight ==
    /\ Len(metrics) = 1 /\ metrics[1].q = {} /\ metrics[1].started
    /\ metrics[1].flying # {}
    /\ metrics[1].out.queue_depth = 0

\* ---------------------------------------------------------------- C15
\* the sum of the delays of the tuples of q that are at most d, counted per delay
RECURSIVE TotalDelay(_, _, _)
TotalDelay(q, t, d) ==
    IF d <= 0 THEN 0
    ELSE d * Cardinality({x \in q : x[1] - t = d}) + TotalDelay(q, t, d - 1)

\* C15: metrics read while entries are queued give the number of queued entries as
\* depth, the largest and the mean of max(0, ready_at - now) over them, a chat one of
\* whose entries has the largest delay, and that largest delay as the delay of this
\* chat; an entry in flight is not queued and so not counted.
C15_QueuedMetrics ==
    Len(metrics) = 1 /\ metrics[1].q # {} =>
        LET m == metrics[1].out
            q == metrics[1].q
            t == metrics[1].t
        IN /\ m.queue_depth = Cardinality(q)
           /\ \A x \in q : m.max_delay_sec >= x[1] - t /\ m.max_delay_sec >= 0
           /\ \E x \in q : m.max_delay_sec = (IF x[1] > t THEN x[1] - t ELSE 0)
           /\ m.avg_delay_sec = <<TotalDelay(q, t, m.max_delay_sec), Cardinality(q)>>
           /\ \E x \in q : /\ entries[x[3]].chat = m.max_delay_chat_id
                            /\ m.max_delay_sec = (IF x[1] > t THEN x[1] - t ELSE 0)
           /\ m.max_delay_chat_sec = m.max_delay_sec
           /\ \A e \in metrics[1].flying : \A x \in q : x[3] # e

\* metrics were read with one entry in flight and two queued for different chats with
\* different delays, one of them overdue
C15_TwoChatsQueued ==
    /\ Len(metrics) = 1 /\ metrics[1].flying # {}
    /\ metrics[1].out.queue_depth = 2
    /\ metrics[1].out.max_delay_sec > 0
    /\ \E x, y \in metrics[1].q :
          /\ entries[x[3]].chat # entries[y[3]].chat
          /\ x[1] < metrics[1].t /\ y[1] > metrics[1].t

\* ---------------------------------------------------------------- C16
\* C16: any two delay alerts created by the limiter are at least DelayAlertCooldown
\* apart, however many admissions find the delay above the threshold in between.
C16_AlertsDebounced ==
    \A j, k \in 1 .. Len(alertLog) :
        j < k => alertLog[k].at - alertLog[j].at >= DelayAlertCooldown

\* a second alert was created exactly DelayAlertCooldown after the first
C16_SecondAlertAfterCooldown ==
    /\ Len(alertLog) = 2
    /\ alertLog[2].at - alertLog[1].at = DelayAlertCooldown

\* ---------------------------------------------------------------- C17
\* C17: a delay alert is created only when ADMIN_CHAT_ID_LOG is set, the queue is not
\* empty and the largest delay is strictly greater than the alert threshold, so none
\* is created when the largest delay equals the threshold; and an admission that
\* leaves such a queue outside the cooldown of an earlier alert creates one alert,
\* which reports the queue depth.
C17_AlertOnlyAboveThreshold ==
    [][/\ Len(alertLog') > Len(alertLog) =>
            /\ adminChat
            /\ Cardinality(queue') > 0
            /\ \E x \in queue' : x[1] - now > DelayAlertThreshold
       /\ (/\ Len(entries') > Len(entries)
           /\ adminChat
           /\ \E x \in queue' : x[1] - now > DelayAlertThreshold
           /\ lastDelayAlertAt = NoTime \/ now - lastDelayAlertAt >= DelayAlertCooldown) =>
            /\ Len(alertLog') = Len(alertLog) + 1
            /\ alertLog'[Len(alertLog')].depth = Cardinality(queue')
            /\ alertLog'[Len(alertLog')].at = now]_vars

\* ---------------------------------------------------------------- C18
\* C18: a typing indicator is sent to a recipient exactly in the step in which
\* enqueue_send computes for it a delay ready_at - now strictly greater than
\* HeavyLoadThreshold: one indicator per such admission, sent while the entry does not
\* exist yet (so before its operation is invoked); an admission with a smaller delay
\* sends none, and no step that requeues or retries an entry sends one.
C18_TypingOnHeavyAdmission ==
    [][\A c \in Chats :
          /\ chatActions'[c] # chatActions[c] =>
                /\ chatActions'[c] = chatActions[c] + 1
                /\ hist'.nCalls = hist.nCalls + 1
                /\ Len(pendingAdm') = Len(pendingAdm) + 1
                /\ pendingAdm'[Len(pendingAdm')].chat = c
                /\ pendingAdm'[Len(pendingAdm')].readyAt - now > HeavyLoadThreshold
                /\ entries' = entries /\ queue' = queue
          /\ (/\ hist'.nCalls = hist.nCalls + 1
              /\ Len(entries') = Len(entries) + 1
              /\ entries'[Len(entries')].chat = c) =>
                /\ entries'[Len(entries')].readyAt - now <= HeavyLoadThreshold
                /\ chatActions'[c] = chatActions[c]
          /\ chatActions'[c] =
                Cardinality({e \in 1 .. Len(entries') :
                                entries'[e].chat = c /\ entHist'[e].typing # "none"})
                + Cardinality({i \in 1 .. Len(pendingAdm') : pendingAdm'[i].chat = c})]_vars

\* an entry admitted after a typing indicator was invoked, failed and was requeued for
\* a retry, and its recipient got the one indicator only
C18_RetriedAfterTyping ==
    \E e \in EntryIds :
        /\ entHist[e].typing = "sent" /\ entries[e].retries = 1
        /\ \E x \in queue : x[3] = e
        /\ chatActions[entries[e].chat] = 1

\* ---------------------------------------------------------------- C19
\* C19: a failure of the typing indicator or of the delivery of a delay alert is not
\* raised and changes nothing of admission or dispatch: when enqueue_send resumes after
\* the indicator, failed or not, it returns a handle for a new entry that is queued
\* with the ready_at computed before the indicator; such an entry is invoked and its
\* handle resolved with the value returned like any other; and the step that ends the
\* delivery of an alert, failed or not, changes nothing of the limiter.
C19_SideFailuresSwallowed ==
    [][/\ Len(pendingAdm') < Len(pendingAdm) =>
            \E i \in 1 .. Len(pendingAdm) :
                /\ pendingAdm' = Without(pendingAdm, i)
                /\ entries' = Append(entries,
                                 [chat |-> pendingAdm[i].chat, retries |-> 0,
                                  enqueuedAt |-> pendingAdm[i].t0,
                                  readyAt |-> pendingAdm[i].readyAt,
                                  future |-> PendingFuture])
                /\ \E x \in queue' : x[3] = Len(entries') /\ x[1] = pendingAdm[i].readyAt
                /\ hist'.nRefused = hist.nRefused
       /\ \A e \in EntryIds :
            entHist[e].typing = "error" /\ SucceedsNow(e) =>
                entries'[e].future =
                    [st |-> "result", val |-> OpResult(e, entHist[e].invoked)]
       /\ (Len(alertLog') = Len(alertLog) /\ alertLog' # alertLog) =>
            UNCHANGED <<now, running, queueEvent, queueLock, workerTask, workers,
                        globalWindow, perChatLastSent, queue, queueSeq, entries,
                        pendingAdm, cancelTasks, lastDelayAlertAt, chatActions, hist>>]_vars

\* an entry whose typing indicator failed was admitted, invoked and resolved, and the
\* delivery of the delay alert its admission created failed too
C19_ResolvedDespiteFailures ==
    \E e \in EntryIds :
        /\ entHist[e].typing = "error"
        /\ entries[e].future.st = "result"
        /\ \E k \in 1 .. Len(alertLog) :
              alertLog[k].delivery = "failed" /\ alertLog[k].at = entries[e].enqueuedAt

\* ---------------------------------------------------------------- C20
\* C20: enqueue_send raises only on a limiter that was never started, and then changes
\* nothing: no entry, no queue tuple, no typing indicator, no limiter field; on a
\* started limiter every call either queues a new entry or, after sending the typing
\* indicator, goes on to queue it, and never raises.
C20_RefusedOnlyBeforeStart ==
    [][/\ hist'.nRefused # hist.nRefused =>
            /\ hist'.nRefused = hist.nRefused + 1
            /\ ~queueLock /\ queueEvent = "none" /\ ~running
            /\ entries = <<>> /\ queue = {}
            /\ UNCHANGED <<now, running, queueEvent, queueLock, workerTask, workers,
                           globalWindow, perChatLastSent, queue, queueSeq, entries,
                           pendingAdm, cancelTasks, lastDelayAlertAt, alertLog,
                           chatActions>>
       /\ (hist'.nCalls # hist.nCalls /\ queueLock) =>
            /\ hist'.nRefused = hist.nRefused
            /\ \/ Len(entries') = Len(entries) + 1 /\ pendingAdm' = pendingAdm
               \/ Len(pendingAdm') = Len(pendingAdm) + 1 /\ entries' = entries
       /\ Len(entries') + Len(pendingAdm') = hist'.nCalls - hist'.nRefused]_vars

\* one call was refused before start() and a later one, after start(), was admitted
C20_RefusedThenAdmitted ==
    /\ hist.nRefused = 1 /\ hist.nCalls = 2
    /\ Len(entries) = 1 /\ queueLock

\* ---------------------------------------------------------------- C21
\* the worker tasks of ws that were created and have not ended
AliveWorkers(ws) == {w \in Workers : ws[w].pc \notin {"none", "done"}}

\* C21: under every interleaving of start() and stop() calls there is at most one
\* worker task alive; a start() creates a worker only when none is alive, and when it
\* returns with no stop() pending the limiter is running; when a stop() returns with no
\* other stop() pending the limiter is stopped: not running, no worker alive, the queue
\* empty; and a stop() of a stopped limiter with an empty queue changes nothing but the
\* reference to the ended worker task and the wake event.
C21_StartStopIdempotent ==
    [][/\ Cardinality(AliveWorkers(workers')) <= 1
       /\ (\E w \in Workers : workers[w].pc = "none" /\ workers'[w].pc = "new") =>
            /\ AliveWorkers(workers) = {}
            /\ (\A v \in Workers : stopWait'[v] = 0) => running'
       /\ (StopReturns /\ \A v \in Workers : stopWait'[v] = 0) =>
            /\ ~running'
            /\ AliveWorkers(workers') = {}
            /\ queue' = {}
       /\ (nStops' > nStops /\ ~running /\ AliveWorkers(workers) = {} /\ queue = {}) =>
            UNCHANGED <<running, queueLock, workers, stopWait, globalWindow,
                        perChatLastSent, queue, queueSeq, entries, pendingAdm,
                        cancelTasks>>]_vars

\* ---------------------------------------------------------------- C22
\* C22: every entry admitted by enqueue_send eventually has its handle done (result,
\* exception or cancellation), when every invocation ends and the worker is scheduled
\* fairly, whatever start() and stop() calls are made around the admission.
C22_EveryEntryResolved ==
    \A e \in 1 .. LiveEntries :
        (Len(entries) >= e) ~> (Len(entries) >= e /\ entries[e].future.st # "pending")

\* ---------------------------------------------------------------- C23
\* C23: cancelling the handle of an entry whose operation is in flight does not
\* interrupt the invocation, neither in the step of future.cancel() nor in the step of
\* _cancel_entry; when the invocation then returns, the send is recorded in the window
\* and for the recipient as for any entry; when it raises, the cancelled handle is not
\* given the error; the handle stays cancelled; and the queue never holds an entry
\* twice, nor an entry in flight, nor an entry whose _cancel_entry has just run.
C23_CancelInFlightHarmless ==
    [][\A e \in EntryIds :
          /\ (/\ InFlight(e)
              /\ \/ entries'[e].future.st = "cancelled" /\ entries[e].future.st = "pending"
                 \/ e \in cancelTasks /\ e \notin cancelTasks') =>
                \A w \in Workers :
                    workers[w].pc = "send" =>
                        workers'[w].pc = "send" /\ workers'[w].cur = workers[w].cur
          /\ (entries[e].future.st = "cancelled" /\ SucceedsNow(e)) =>
                /\ globalWindow' # <<>> /\ globalWindow'[Len(globalWindow')] = now
                /\ perChatLastSent'[entries[e].chat] = now
                /\ entries'[e].retries = 0
          /\ entries[e].future.st = "cancelled" => entries'[e].future.st = "cancelled"
          /\ Cardinality({x \in queue' : x[3] = e}) <= 1
          /\ (\E w \in Workers : workers'[w].pc = "send" /\ workers'[w].cur = e) =>
                \A x \in queue' : x[3] # e
          /\ (e \in cancelTasks /\ e \notin cancelTasks') =>
                \A x \in queue' : x[3] # e]_vars

\* the handle of an entry was cancelled while its operation was in flight, the
\* operation then raised an error, and the handle is still cancelled
C23_CancelledThenFailed ==
    \E e \in EntryIds :
        /\ entries[e].future.st = "cancelled"
        /\ entHist[e].last = "err" /\ entHist[e].invoked = 1
        /\ e \notin cancelTasks

\* ---------------------------------------------------------------- C24
\* C24: once the handle of an entry is done (result, exception, cancelled by the
\* caller or rejected by stop) the entry is not inserted into the queue and its
\* operation is not invoked; in particular an entry cancelled while in flight is not
\* requeued when its invocation raises RetryAfter or a network error.
C24_TerminalNeverRequeued ==
    [][\A e \in EntryIds :
          Done(entries[e].future) =>
              /\ \A x \in queue' : x[3] = e => x \in queue
              /\ ~InvokedNow(e)]_vars

\* ---------------------------------------------------------------- C25
\* C25: at any time at most one invocation of an operation is in progress, whatever
\* start() and stop() calls were made: no worker task invokes an entry while another
\* invocation has not yet returned or raised.
C25_OneInvocationAtATime ==
    Cardinality({w \in Workers : workers[w].pc = "send"}) <= 1

\* ---------------------------------------------------------------- C26
\* C26: a worker suspended in _next_ready_entry that has not been woken waits with a
\* timeout that ends no later than the earliest ready_at in the queue (and the queue is
\* empty if it waits without timeout); every step that inserts a tuple into the queue
\* sets the wake event, so that a worker waiting for a later deadline or idling is
\* woken, and the event is cleared only in the step in which the worker, having
\* inspected the queue, starts to wait.
C26_NeverSleepsPastDeadline ==
    [][/\ \A w \in Workers :
            (workers'[w].pc = "wait" /\ ~workers'[w].woken /\ ~workers'[w].cancelReq) =>
                \A x \in queue' :
                    workers'[w].until # NoTime /\ workers'[w].until <= x[1]
       /\ (\E x \in queue' : x \notin queue) => queueEvent' = "set"
       /\ (queueEvent = "set" /\ queueEvent' = "clear") =>
            \E w \in Workers :
                /\ workers[w].pc # "wait" \/ workers[w].woken \/ now >= workers[w].until
                /\ workers'[w].pc = "wait" /\ ~workers'[w].woken
                /\ \A x \in queue' : workers'[w].until # NoTime /\ workers'[w].until <= x[1]]_vars

\* a worker waiting for the retry time of an entry was woken by the admission of an
\* entry that is due earlier
C26_WokenByEarlierEntry ==
    \E w \in Workers :
        /\ workers[w].pc = "wait" /\ workers[w].woken /\ workers[w].until # NoTime
        /\ \E x \in queue : x[1] < workers[w].until
        /\ running

\* ---------------------------------------------------------------- C27
\* C27: whatever mix of RetryAfter and network errors an entry meets, its retries
\* counter never exceeds MaxRetryAttempts and its operation is invoked at most
\* MaxRetryAttempts + 1 times: a failure of either kind adds one to the same counter
\* and requeues the entry while the counter is below the maximum, and otherwise fails
\* the entry for good without requeueing it.
C27_RetriesBounded ==
    [][\A e \in EntryIds :
          /\ entries'[e].retries <= MaxRetryAttempts
          /\ entHist'[e].invoked <= MaxRetryAttempts + 1
          /\ (EndsNow(e, "rl") \/ EndsNow(e, "net")) =>
                IF entries[e].retries < MaxRetryAttempts
                THEN /\ entries'[e].retries = entries[e].retries + 1
                     /\ \E x \in queue' : x[3] = e
                     /\ entries'[e].future.st = "pending"
                ELSE /\ entries'[e].retries = entries[e].retries
                     /\ \A x \in queue' : x[3] # e
                     /\ entries'[e].future.st \in {"RetryAfter", "NetworkError"}]_vars

\* an entry met both RetryAfter and a network error, was invoked MaxRetryAttempts + 1
\* times and has failed for good
C27_MixedExhausted ==
    \E e \in EntryIds :
        /\ ~entHist[e].rlOnly /\ ~entHist[e].netOnly
        /\ entHist[e].last \in {"rl", "net"}
        /\ entHist[e].invoked = MaxRetryAttempts + 1
        /\ entries[e].retries = MaxRetryAttempts
        /\ entries[e].future.st \in {"RetryAfter", "NetworkError"}

\* ---------------------------------------------------------------- C28
\* C28: when every invocation succeeds, no admitted entry's operation is invoked more
\* than once, an entry whose handle is resolved was invoked exactly once and carries
\* the operation's result, and once the handles of all admitted entries are resolved
\* the queue is empty.
C28_EachInvokedOnceQueueDrained ==
    /\ \A e \in EntryIds :
          /\ entHist[e].invoked <= 1
          /\ Done(entries[e].future) =>
                entHist[e].invoked = 1 /\ entries[e].future.st = "result"
    /\ (\A e \in EntryIds : Done(entries[e].future)) => queue = {}

\* several entries were admitted, one of them was requeued by the pacing checks, all
\* handles are resolved and the queue is empty
C28_BurstDelivered ==
    /\ Len(entries) >= 2
    /\ pendingAdm = <<>>
    /\ queueSeq > Len(entries)
    /\ \A e \in EntryIds : entries[e].future.st = "result" /\ entHist[e].invoked = 1
    /\ queue = {}

\* ---------------------------------------------------------------- C29
\* the tuple of entry e is the head of the queue, is due, and is popped in this step
\* by a worker
PopsDue(e) ==
    /\ queue # {}
    /\ QueueHead[3] = e
    /\ QueueHead[1] <= now
    /\ QueueHead \notin queue'
    /\ \E w \in Workers : /\ workers[w].pc \in {"new", "run", "wait"}
                          /\ workers'[w].pc \in {"run", "send"}

\* the timestamps of the global window younger than one second
Young == {i \in DOMAIN globalWindow : now - globalWindow[i] < OneSec}

\* the oldest of them
OldestYoung == CHOOSE t \in {globalWindow[i] : i \in Young} :
                   \A i \in Young : t <= globalWindow[i]

\* C29: when a due entry is popped while the global window holds GlobalRate timestamps
\* younger than one second, its operation is not invoked and it is queued again, once,
\* with ready_at = the oldest of these timestamps + one second; with GlobalRate = 1 no
\* operation is therefore invoked less than one second after a recorded send.
C29_SaturatedWindowRequeues ==
    [][\A e \in EntryIds :
          /\ PopsDue(e) /\ Cardinality(Young) >= GlobalRate =>
                /\ ~InvokedNow(e)
                /\ \A w \in Workers : workers'[w].pc # "send"
                /\ entries'[e].readyAt = OldestYoung + OneSec
                /\ \E x \in queue' : /\ x[3] = e /\ x[1] = OldestYoung + OneSec
                                     /\ \A y \in queue' : y[3] = e => y = x
                /\ entries'[e].future = entries[e].future
          /\ InvokedNow(e) =>
                \A i \in DOMAIN globalWindow : now - globalWindow[i] >= OneSec]_vars

\* an entry for a recipient nobody has sent to yet was due while the window was full
\* and waits in the queue for the window's timestamp + one second
C29_HeldBackByWindow ==
    \E e \in EntryIds :
        /\ perChatLastSent[entries[e].chat] = NoTime
        /\ entHist[e].invoked = 0
        /\ globalWindow # <<>>
        /\ entries[e].readyAt = globalWindow[1] + OneSec
        /\ entries[e].readyAt > now
        /\ \E x \in queue : x[3] = e /\ x[1] = entries[e].readyAt

\* ---------------------------------------------------------------- C30
\* C30: when a due entry is popped while the global window is not saturated and less
\* than PerChatCooldown has passed since the last recorded send to its recipient, its
\* operation is not invoked and it is queued again, once, with ready_at = that send +
\* PerChatCooldown; the recorded send is not changed by the step.
C30_CooldownRequeues ==
    [][\A e \in EntryIds :
          LET last == perChatLastSent[entries[e].chat]
          IN /\ PopsDue(e)
             /\ Cardinality(Young) < GlobalRate
             /\ last # NoTime /\ now < last + PerChatCooldown
             => /\ ~InvokedNow(e)
                /\ \A w \in Workers : workers'[w].pc # "send"
                /\ entries'[e].readyAt = last + PerChatCooldown
                /\ \E x \in queue' : /\ x[3] = e /\ x[1] = last + PerChatCooldown
                                     /\ \A y \in queue' : y[3] = e => y = x
                /\ entries'[e].future = entries[e].future
                /\ perChatLastSent' = perChatLastSent]_vars

\* an entry queued before another send to its recipient was recorded came due with a
\* free window and waits in the queue for that send + PerChatCooldown
C30_HeldBackByCooldown ==
    \E e \in EntryIds :
        LET last == perChatLastSent[entries[e].chat]
        IN /\ last # NoTime
           /\ entries[e].enqueuedAt <= last
           /\ entHist[e].invoked = 0
           /\ entries[e].readyAt = last + PerChatCooldown
           /\ entries[e].readyAt > now
           /\ Cardinality(Young) < GlobalRate
           /\ \E x \in queue : x[3] = e /\ x[1] = entries[e].readyAt /\ x[2] > Len(entries)

\* ---------------------------------------------------------------- C31
\* max(now, last recorded send + cooldown), now when there is no recorded send
CooldownEnd(chat) ==
    IF perChatLastSent[chat] = NoTime \/ perChatLastSent[chat] + PerChatCooldown <= now
    THEN now
    ELSE perChatLastSent[chat] + PerChatCooldown

\* C31: a call of enqueue_send at time now for recipient T computes ready_at =
\* max(now, last recorded send to T + PerChatCooldown), now when T has no recorded
\* send, whatever the global window holds; the entry is queued under that ready_at,
\* at once or after the typing indicator; and no operation is invoked at a time
\* earlier than the ready_at its entry has then.
C31_ReadyAtOnAdmission ==
    [][/\ Len(pendingAdm') > Len(pendingAdm) =>
             LET p == pendingAdm'[Len(pendingAdm')]
             IN p.t0 = now /\ p.readyAt = CooldownEnd(p.chat)
       /\ Len(entries') > Len(entries) =>
             LET e == Len(entries')
                 n == entries'[e]
             IN /\ \E x \in queue' \ queue : x[3] = e /\ x[1] = n.readyAt
                /\ IF Len(pendingAdm') < Len(pendingAdm)
                   THEN \E i \in 1 .. Len(pendingAdm) :
                            /\ pendingAdm[i].chat = n.chat
                            /\ pendingAdm[i].t0 = n.enqueuedAt
                            /\ pendingAdm[i].readyAt = n.readyAt
                   ELSE n.enqueuedAt = now /\ n.readyAt = CooldownEnd(n.chat)
       /\ \A e \in EntryIds : InvokedNow(e) => entries[e].readyAt <= now]_vars

\* while the global window is full an entry for a recipient without a recorded send
\* was queued with ready_at = the time of its admission, and is still waiting
C31_AdmittedDespiteFullWindow ==
    \E e \in EntryIds :
        /\ perChatLastSent[entries[e].chat] = NoTime
        /\ entries[e].enqueuedAt = now /\ entries[e].readyAt = now
        /\ Cardinality(Young) >= GlobalRate
        /\ \E x \in queue : x[3] = e /\ x[1] = now /\ x[2] = e
        /\ entHist[e].invoked = 0

\* ---------------------------------------------------------------- C32
\* C32: the ready_at of an entry never decreases: every step that reschedules an
\* entry, because the global window is full, because the cooldown has not elapsed or
\* for a retry, stores a ready_at not smaller than the previous one, and queues the
\* entry under the stored value.
C32_ReadyAtMovesForward ==
    [][\A e \in EntryIds :
          /\ entries'[e].readyAt >= entries[e].readyAt
          /\ \A x \in queue' \ queue : x[3] = e => x[1] = entries'[e].readyAt]_vars

\* an entry was rescheduled for a retry and then again by a pacing check, each time
\* to a later ready_at
C32_RetriedThenHeldBack ==
    \E e \in EntryIds :
        /\ entries[e].retries = 1
        /\ entHist[e].invoked = 1
        /\ entHist[e].last = "net"
        /\ entries[e].readyAt > entHist[e].failAt + RetryBackoff(1)
        /\ \E x \in queue : x[3] = e /\ x[1] = entries[e].readyAt

\* ---------------------------------------------------------------- C33
\* C33: the global window never holds more than GlobalRate timestamps and is ordered
\* in time; after every access (the check made when a due entry is popped, the
\* recording made when an invocation returns) all its timestamps are less than one
\* second old, however long the invocations take.
C33_WindowBounded ==
    [][/\ Len(globalWindow') <= GlobalRate
       /\ \A i, j \in DOMAIN globalWindow' : i <= j => globalWindow'[i] <= globalWindow'[j]
       /\ (globalWindow' # globalWindow \/ \E e \in EntryIds : PopsDue(e) \/ SucceedsNow(e))
             => \A i \in DOMAIN globalWindow' : now - globalWindow'[i] < OneSec]_vars

\* ---------------------------------------------------------------- C34
\* the timestamps of window win less than one second old at time t
YoungAt(win, t) == {i \in DOMAIN win : t - win[i] < OneSec}

\* C34: at any time t from now on, can_send_global(t) is true exactly when fewer than
\* GlobalRate recorded timestamps are less than one second old at t, a timestamp
\* exactly one second old not being counted; and when the window holds GlobalRate
\* such timestamps, can_send_global(t) is false until the oldest of them is one
\* second old and true from then on.
C34_CanSendCountsYoung ==
    \A t \in now .. now + OneSec :
        /\ CanSendGlobal(globalWindow, t)
              <=> Cardinality(YoungAt(globalWindow, t)) < GlobalRate
        /\ Cardinality(Young) = GlobalRate
              => (CanSendGlobal(globalWindow, t) <=> t - OldestYoung >= OneSec)

\* the window holds a timestamp that is one second old, not pruned yet, and a younger
\* one: sending is refused now and allowed one tick later
C34_ExpiredNotCounted ==
    /\ Len(globalWindow) >= 2
    /\ now - globalWindow[1] = OneSec
    /\ Cardinality(Young) = GlobalRate
    /\ ~CanSendGlobal(globalWindow, now)
    /\ CanSendGlobal(globalWindow, now + 1)

\* ---------------------------------------------------------------- C35
\* C35: the cooldown map value of a recipient never decreases and, once set, is never
\* unset, whatever timestamps record_chat_send is called with: recording timestamp t
\* leaves the larger of t and the value held; and at any time t
\* next_allowed_for_chat is t for a recipient without a recorded send and the larger
\* of t and the recorded send + PerChatCooldown otherwise.
C35_CooldownMapMonotone ==
    [][\A c \in Chats :
          /\ perChatLastSent[c] # NoTime =>
                /\ perChatLastSent'[c] >= perChatLastSent[c]
                /\ perChatLastSent'[c] # perChatLastSent[c] =>
                      perChatLastSent'[c] = hist'.chatOk[c]
          /\ \A t \in 0 .. TrackTime + PerChatCooldown :
                LET v == NextAllowedForChat(perChatLastSent', c, t)
                    end == perChatLastSent'[c] + PerChatCooldown
                IN IF perChatLastSent'[c] = NoTime THEN v = t
                   ELSE v >= t /\ v >= end /\ v \in {t, end}]_vars

\* the timestamp recorded last for a recipient is older than the one the map holds,
\* and the recipient's next allowed time still follows from the newer one
C35_OlderTimestampIgnored ==
    \E c \in Chats :
        /\ hist.chatOk[c] # NoTime
        /\ hist.chatOk[c] < perChatLastSent[c]
        /\ NextAllowedForChat(perChatLastSent, c, now) = perChatLastSent[c] + PerChatCooldown
        /\ perChatLastSent[c] + PerChatCooldown > now

\* ---------------------------------------------------------------- C36
\* C36: a step in which an invocation ends by raising RetryAfter, a network error or
\* any other exception leaves the global window and the cooldown map as they were;
\* a timestamp is added to the window, and a value of the map changes, only in a
\* step in which an invocation returns.
C36_FailureRecordsNothing ==
    [][/\ \A e \in EntryIds :
             EndsNow(e, "rl") \/ EndsNow(e, "net") \/ EndsNow(e, "err") =>
                 globalWindow' = globalWindow /\ perChatLastSent' = perChatLastSent
       /\ (\/ perChatLastSent' # perChatLastSent
           \/ Len(globalWindow') > Len(globalWindow)
           \/ \E i \in DOMAIN globalWindow' :
                 \A j \in DOMAIN globalWindow : globalWindow'[i] # globalWindow[j])
             => \E e \in EntryIds : SucceedsNow(e)]_vars

\* an invocation has just failed, some time after a send to the same recipient, and
\* neither the map nor the window holds the time of the failure
C36_FailedAfterSend ==
    \E e \in EntryIds :
        /\ entHist[e].last \in {"rl", "net", "err"}
        /\ hist.chatInv[entries[e].chat] = now
        /\ perChatLastSent[entries[e].chat] # NoTime
        /\ perChatLastSent[entries[e].chat] < now
        /\ \A i \in DOMAIN globalWindow : globalWindow[i] < now
        /\ \A w \in Workers : workers[w].pc # "send"

\* ---------------------------------------------------------------- C37
\* C37: a step in which a due entry is popped and not invoked, because the global
\* window is full or the cooldown of its recipient has not elapsed, changes of the
\* entry only its ready_at and its place in the queue: its retries, its handle, its
\* recipient and its time of admission stay, the other entries and the cooldown map
\* are not touched, and the entry is queued once, under a new sequence number.
C37_PacingRequeueKeepsEntry ==
    [][\A e \in EntryIds :
          PopsDue(e) /\ ~InvokedNow(e) =>
              /\ entries' = [entries EXCEPT ![e].readyAt = entries'[e].readyAt]
              /\ entHist' = entHist
              /\ perChatLastSent' = perChatLastSent
              /\ queueSeq' = queueSeq + 1
              /\ queue' \ queue = {<<entries'[e].readyAt, queueSeq', e>>}
              /\ queue \ queue' = {QueueHead}]_vars

\* an entry that used one retry has since been rescheduled by the pacing checks more
\* than once (no other entry was ever rescheduled); its retries is still 1 and its
\* handle is pending
C37_HeldBackTwiceAfterRetry ==
    \E e \in EntryIds :
        /\ entries[e].retries = 1
        /\ entHist[e].invoked = 1
        /\ entries[e].future.st = "pending"
        /\ \E x \in queue : x[3] = e /\ x[2] >= Len(entries) + 3
        /\ \A d \in EntryIds \ {e} : /\ entHist[d].last = "ok"
                                        /\ entHist[d].invoked = 1
                                        /\ entries[d].readyAt = entries[d].enqueuedAt

\* ---------------------------------------------------------------- C38
\* C38: when stop() is called while the operation of an entry is in flight, the
\* invocation is cancelled and stop() waits for the worker; the cancelled invocation
\* can only end by the worker task ending, in a step that gives the handle the
\* cancellation error (a handle the caller cancelled stays cancelled), leaves the
\* entry out of the queue and does not touch the global window or the cooldown map;
\* and stop() does not return before that step.
C38_StopCancelsInFlight ==
    [][\A w \in Workers :
          LET e == workers[w].cur
          IN workers[w].pc = "send" =>
               /\ nStops' > nStops =>
                     /\ ~running'
                     /\ workers'[w].pc = "send" /\ workers'[w].cancelReq
                     /\ stopWait'[w] > 0
               /\ workers[w].cancelReq =>
                     /\ workers'[w].pc \in {"send", "done"}
                     /\ stopWait[w] > 0 /\ stopWait'[w] >= stopWait[w]
                     /\ ~InvokedNow(e)
                     /\ workers'[w].pc = "done" =>
                           /\ entries'[e].future =
                                 (IF Done(entries[e].future) THEN entries[e].future
                                  ELSE [st |-> "CancelledError", val |-> 0])
                           /\ entries'[e].retries = entries[e].retries
                           /\ \A x \in queue' : x[3] # e
                           /\ globalWindow' = globalWindow
                           /\ perChatLastSent' = perChatLastSent]_vars

====
